---- MODULE Spec2Model ----
(***************************************************************************)
(* A model of the signature-driven annotation engine of typeright:         *)
(* the fixers of typeright/fixes (base.py, fix_annotate_json.py,           *)
(* fix_annotate_docs.py, fix_annotate_any.py) and the import utilities of  *)
(* typeright/fixes/fixer_utils.py.                                         *)
(*                                                                         *)
(* A file is the sequence of the children of its root node.  Dotted names  *)
(* are sequences of identifiers (<<"pkg", "mod2">> is pkg.mod2, <<>> is    *)
(* the empty string), type strings are sequences of tokens: a word         *)
(* (a maximal run of [\w.:], the unit re.sub hands to type_updater) or a   *)
(* punctuation character.                                                  *)
(***************************************************************************)
EXTENDS Integers, Sequences, FiniteSets, TLC

(***************************************************************************)
(* Sequences and names                                                     *)
(***************************************************************************)

\* The identifiers of the model in Python's string order (sorted()).
NameOrder ==
    << "AnotherClass", "Any", "Inner", "Iterator", "List", "MyClass", "None",
       "Optional", "OtherClass", "Outer", "TYPE_CHECKING", "a", "b", "bar",
       "cls", "f", "g", "int", "mod1", "mod2", "mod3", "nop", "os", "pkg",
       "self", "typing" >>

Rank(s) == CHOOSE i \in 1..Len(NameOrder) : NameOrder[i] = s

RECURSIVE DottedLess(_, _)
\* a < b for two dotted names compared as Python compares their strings:
\* '.' sorts before every identifier character, so the comparison is
\* component by component, a proper prefix first.
DottedLess(a, b) ==
    IF a = <<>> THEN b # <<>>
    ELSE IF b = <<>> THEN FALSE
    ELSE IF a[1] = b[1] THEN DottedLess(Tail(a), Tail(b))
    ELSE Rank(a[1]) < Rank(b[1])

\* (mod, name) tuples in sorted() order.
PairLess(p, q) ==
    \/ DottedLess(p.mod, q.mod)
    \/ p.mod = q.mod /\ DottedLess(p.name, q.name)

RECURSIVE SortedPairsDescending(_)
\* the pairs in reverse order
SortedPairsDescending(S) ==
    IF S = {} THEN <<>>
    ELSE LET m == CHOOSE x \in S : \A y \in S \ {x} : PairLess(y, x)
         IN  <<m>> \o SortedPairsDescending(S \ {m})

RECURSIVE SortedPairs(_)
\* sorted(set of (mod, name))
SortedPairs(S) ==
    IF S = {} THEN <<>>
    ELSE LET m == CHOOSE x \in S : \A y \in S \ {x} : PairLess(x, y)
         IN  <<m>> \o SortedPairs(S \ {m})

Front(s) == SubSeq(s, 1, Len(s) - 1)
Last(s) == s[Len(s)]
InsertAt(s, pos, x) == SubSeq(s, 1, pos) \o <<x>> \o SubSeq(s, pos + 1, Len(s))
Range(s) == {s[i] : i \in 1..Len(s)}

(***************************************************************************)
(* The tree: the children of the root node                                 *)
(*   [kind |-> "import", form, package, names]  an import statement        *)
(*   [kind |-> "tcblock", test, body]           an if-statement on the     *)
(*                                              TYPE_CHECKING sentinel     *)
(*                                              with an indented suite     *)
(*   [kind |-> "tcline", test, body, stray]     the same with its body on  *)
(*                                              the line of the `if`; the  *)
(*                                              nodes in stray are children*)
(*                                              of that simple statement   *)
(*   [kind |-> "docstring"]                     a string statement         *)
(*   [kind |-> "stmt", sites]                   any other statement, with  *)
(*                                              the funcdef nodes below it *)
(***************************************************************************)

NoAlias == <<>>

FromImport(package, name) ==
    [kind |-> "import", form |-> "from", package |-> package,
     names |-> << [name |-> <<name>>, alias |-> NoAlias] >>]

PlainImport(dotted, alias) ==
    [kind |-> "import", form |-> "import", package |-> <<>>,
     names |-> << [name |-> dotted, alias |-> alias] >>]

\* is_import_stmt: a simple_stmt whose first child is import_name or import_from.
is_import_stmt(item) == item.kind = "import"

\* decompose_name: a.b.c => (a.b, c, a.b.c); c => ('', c, c)
decompose_name(dotted) ==
    [package |-> Front(dotted), name |-> Last(dotted), full |-> dotted]

\* handle_name with the alias dropped: the binding is always the full name
handle_name_full(n) ==
    LET d == decompose_name(n.name)
    IN  [package |-> d.package, entry |-> d.name, binding |-> d.full]

\* handle_name (inside get_import_info): one imported name to
\* (package, import_name, binding_name).
handle_name(n) ==
    LET d == decompose_name(n.name)
    IN  [package |-> d.package, entry |-> d.name,
         binding |-> IF n.alias # NoAlias THEN n.alias ELSE d.full]

\* get_import_info: the pairings of one import statement, each under the
\* package key it is stored under in ImportNodeInfo.imports.
get_import_info(item) ==
    { LET hn == handle_name(item.names[i])
      IN  [package |-> IF item.form = "from" THEN item.package ELSE hn.package,
           entry |-> hn.entry, binding |-> hn.binding]
      : i \in 1..Len(item.names) }

NoInfo == [found |-> FALSE, binding |-> <<>>]

RECURSIVE find_import_info(_, _, _)
\* find_import_info: the first top-level import statement with an entry
\* `name` under key `package`.  Only simple statements are searched: a
\* TYPE_CHECKING block is an if_stmt and is passed over.
find_import_info(package, name, root) ==
    IF root = <<>> THEN NoInfo
    ELSE LET hits == IF is_import_stmt(Head(root))
                     THEN { p \in get_import_info(Head(root)) :
                              p.package = package /\ p.entry = name }
                     ELSE {}
         IN  IF hits # {}
             THEN [found |-> TRUE, binding |-> (CHOOSE p \in hits : TRUE).binding]
             ELSE find_import_info(package, name, Tail(root))

NoBinding == [found |-> FALSE, text |-> <<>>]

\* type_by_import_stmt: the text under which `package`.`name` is already
\* bound by the file's imports, or None.
type_by_import_stmt(package, name, root) ==
    LET import_info == find_import_info(package, name, root)
        pkg == IF Len(package) > 1 THEN Front(package) ELSE <<>>
        mod == IF package = <<>> THEN "" ELSE Last(package)
        module_import_info == find_import_info(pkg, mod, root)
    IN  IF import_info.found THEN [found |-> TRUE, text |-> import_info.binding]
        ELSE IF module_import_info.found
             THEN [found |-> TRUE, text |-> module_import_info.binding \o <<name>>]
             ELSE NoBinding

\* get_unprotected_imports finding nothing: every module counts as new
get_unprotected_imports_none(root) == {}

RECURSIVE get_unprotected_imports(_)
\* get_unprotected_imports: each import statement overwrites `imports`, so
\* the result is the key set of the last top-level import statement.
get_unprotected_imports(root) ==
    IF root = <<>> THEN {}
    ELSE IF is_import_stmt(Last(root))
         THEN { p.package : p \in get_import_info(Last(root)) }
         ELSE get_unprotected_imports(Front(root))

\* _generate_import_node
generate_import_node(package, name) ==
    IF package = <<>> THEN PlainImport(<<name>>, NoAlias)
    ELSE FromImport(package, name)

\* get_bottom_of_imports taking the last import statement of the file
get_bottom_of_imports_last(root) ==
    LET imps == { i \in 1..Len(root) : is_import_stmt(root[i]) }
        docs == { i \in 1..Len(root) : root[i].kind = "docstring" }
    IN  IF imps # {} THEN CHOOSE i \in imps : \A j \in imps : j <= i
        ELSE IF docs # {} THEN CHOOSE i \in docs : \A j \in docs : i <= j
        ELSE 0

\* _get_bottom_of_imports: the index (children before it) at which a new
\* statement is inserted.
get_bottom_of_imports(root) ==
    LET imps == { i \in 1..Len(root) : is_import_stmt(root[i]) }
        idx == CHOOSE i \in imps : \A j \in imps : i <= j
        stops == { j \in idx..Len(root) : ~is_import_stmt(root[j]) }
        offset == IF stops = {} THEN Len(root) - idx
                  ELSE (CHOOSE j \in stops : \A k \in stops : j <= k) - idx
        insert_pos == IF imps = {} THEN 0 ELSE (idx - 1) + offset
        docs == { i \in 1..Len(root) : root[i].kind = "docstring" }
    IN  IF insert_pos = 0 /\ docs # {}
        THEN CHOOSE i \in docs : \A j \in docs : i <= j
        ELSE insert_pos

\* create_import
create_import(package, name, root) ==
    InsertAt(root, get_bottom_of_imports(root), generate_import_node(package, name))

TypeChecking == <<"TYPE_CHECKING">>
TypingTypeChecking == <<"typing", "TYPE_CHECKING">>

\* is_type_checking_decl (inside create_type_checking_import)
is_type_checking_decl(item) ==
    item.kind \in {"tcblock", "tcline"} /\ item.test \in {TypingTypeChecking, TypeChecking}

\* the import statements below an if-statement on the sentinel, as a walk
\* over its fourth child meets them
SuiteImports(item) ==
    IF item.kind = "tcblock" THEN item.body
    ELSE IF item.kind = "tcline" THEN item.body \o item.stray
    ELSE <<>>

\* _new_type_check_with_import: the block, then the sentinel import in
\* front of it, both at insert_pos.
new_type_check_with_import(package, name, root, insert_pos) ==
    LET block == [kind |-> "tcblock", test |-> TypeChecking,
                  body |-> << generate_import_node(package, name) >>]
    IN  InsertAt(InsertAt(root, insert_pos, block), insert_pos,
                 generate_import_node(<<"typing">>, "TYPE_CHECKING"))

\* create_type_checking_import: the new statement goes in front of the
\* last child of children[3] of the first if-statement on the sentinel.
\* That child is the DEDENT of an indented suite; when the body stands on
\* the line of the `if`, children[3] is the simple statement itself and the
\* new node lands inside it, in front of its NEWLINE.
create_type_checking_import(package, name, root) ==
    LET blocks == { i \in 1..Len(root) : is_type_checking_decl(root[i]) }
        idx == CHOOSE i \in blocks : \A j \in blocks : i <= j
    IN  IF blocks = {}
        THEN new_type_check_with_import(package, name, root, get_bottom_of_imports(root))
        ELSE IF root[idx].kind = "tcline"
        THEN [root EXCEPT ![idx].stray = @ \o << generate_import_node(package, name) >>]
        ELSE [root EXCEPT ![idx].body = @ \o << generate_import_node(package, name) >>]

RECURSIVE CreateImports(_, _)
CreateImports(pairs, root) ==
    IF pairs = <<>> THEN root
    ELSE CreateImports(Tail(pairs), create_import(Head(pairs).mod, Head(pairs).name[1], root))

RECURSIVE CreateTypeCheckingImports(_, _)
CreateTypeCheckingImports(pairs, root) ==
    IF pairs = <<>> THEN root
    ELSE CreateTypeCheckingImports(Tail(pairs),
             create_type_checking_import(Head(pairs).mod, Head(pairs).name[1], root))

\* BaseFixAnnotateFromSignature.patch_imports: both pending sets are
\* written in sorted order, the top-level ones first (the sets are cleared
\* by the caller's state update).
patch_imports(needed_imports, needed_type_checking_imports, root) ==
    CreateTypeCheckingImports(SortedPairs(needed_type_checking_imports),
        CreateImports(SortedPairs(needed_imports), root))

(***************************************************************************)
(* Type strings and name resolution (base.py)                              *)
(***************************************************************************)

\* A word 'a.b.c' is parts <<a, b, c>> with colon = 0; 'a:b.c' has colon = 1
\* (the number of components in front of the ':').
W(parts) == [k |-> "w", parts |-> parts, colon |-> 0]
WC(parts, colon) == [k |-> "w", parts |-> parts, colon |-> colon]
P(c) == [k |-> "p", parts |-> <<c>>, colon |-> 0]
Ellipsis == [k |-> "e", parts |-> <<"...">>, colon |-> 0]
Bare(name) == << W(<<name>>) >>
Wrap(outer, t) == << W(<<outer>>), P("[") >> \o t \o << P("]") >>
Starred(t) == << P("*") >> \o t
DoubleStarred(t) == << P("*"), P("*") >> \o t

\* typing.__all__, as far as the identifiers of the model go.
typing_all == {"Any", "Iterator", "List", "Optional", "TYPE_CHECKING"}

\* BaseFixAnnotateFromSignature.safe_imports
safe_imports == { <<"typing">> }

Pending(ni, ntc) == [needed_imports |-> ni, needed_type_checking_imports |-> ntc]
NoPending == Pending({}, {})

\* add_import without the safe_imports exemption
add_import_unsafe(mod, name, in_type_checking, pend, current_module) ==
    IF mod = current_module THEN pend
    ELSE IF in_type_checking
         THEN [pend EXCEPT !.needed_type_checking_imports =
                               @ \cup {[mod |-> mod, name |-> <<name>>]}]
         ELSE [pend EXCEPT !.needed_imports = @ \cup {[mod |-> mod, name |-> <<name>>]}]

\* add_import without the test of the current module
add_import_own(mod, name, in_type_checking, pend, current_module) ==
    IF in_type_checking /\ mod \notin safe_imports
    THEN [pend EXCEPT !.needed_type_checking_imports =
                          @ \cup {[mod |-> mod, name |-> <<name>>]}]
    ELSE [pend EXCEPT !.needed_imports = @ \cup {[mod |-> mod, name |-> <<name>>]}]

\* add_import
add_import(mod, name, in_type_checking, pend, current_module) ==
    IF mod = current_module THEN pend
    ELSE IF in_type_checking /\ mod \notin safe_imports
         THEN [pend EXCEPT !.needed_type_checking_imports =
                               @ \cup {[mod |-> mod, name |-> <<name>>]}]
         ELSE [pend EXCEPT !.needed_imports = @ \cup {[mod |-> mod, name |-> <<name>>]}]

\* touch_typing_import
touch_typing_import(word, root, pend, current_module) ==
    IF word \in typing_all /\ ~type_by_import_stmt(<<"typing">>, word, root).found
    THEN add_import(<<"typing">>, word, FALSE, pend, current_module)
    ELSE pend

\* type_updater: the text written for one word and the pending sets after it.
type_updater(tok, root, pend, current_module) ==
    IF tok.k # "w" THEN [text |-> tok, pend |-> pend]
    ELSE IF Len(tok.parts) = 1
    THEN [text |-> tok,
          pend |-> touch_typing_import(tok.parts[1], root, pend, current_module)]
    ELSE
      LET n == Len(tok.parts)
          mod == IF tok.colon > 0 THEN SubSeq(tok.parts, 1, tok.colon) ELSE Front(tok.parts)
          name == IF tok.colon > 0 THEN SubSeq(tok.parts, tok.colon + 1, n)
                  ELSE << tok.parts[n] >>
          to_import == name[1]
          result == type_by_import_stmt(mod, to_import, root)
          in_type_checking == mod \notin get_unprotected_imports(root)
      IN  IF result.found THEN [text |-> W(result.text), pend |-> pend]
          ELSE [text |-> W(name),
                pend |-> add_import(mod, to_import, in_type_checking, pend, current_module)]

\* the texts written so far and the pending sets after them
Collected(pend) == [text |-> <<>>, pend |-> pend]
Collect(acc, h) == [text |-> Append(acc.text, h.text), pend |-> h.pend]

RECURSIVE SubWords(_, _, _, _)
\* re.sub(r'[\w.:]+', type_updater, type_str): the words left to right,
\* everything else copied
SubWords(words, root, acc, current_module) ==
    IF words = <<>> THEN acc
    ELSE SubWords(Tail(words), root,
                  Collect(acc, type_updater(Head(words), root, acc.pend, current_module)),
                  current_module)

\* update_type_names
update_type_names(type_str, root, pend, current_module) ==
    SubWords(type_str, root, Collected(pend), current_module)

RECURSIVE UpdateAll(_, _, _, _)
\* update_type_names on every type of a list in turn: text is the list of
\* the texts
UpdateAll(types, root, acc, current_module) ==
    IF types = <<>> THEN acc
    ELSE UpdateAll(Tail(types), root,
                   Collect(acc, update_type_names(Head(types), root, acc.pend, current_module)),
                   current_module)

\* str.startswith on a type string
StartsWith(t, prefix) ==
    Len(t) >= Len(prefix) /\ SubSeq(t, 1, Len(prefix)) = prefix

(***************************************************************************)
(* Paths and the module of the file (base.py: crawl_up, strip_py)          *)
(* A path is [abs, dir, stem, ext]; a directory is a path with stem = "".  *)
(***************************************************************************)

PY_EXTENSIONS == {".pyi", ".py"}

NoDir == [abs |-> FALSE, dir |-> <<>>]

\* strip_py(mod) or mod
strip_py(path) == IF path.ext \in PY_EXTENSIONS THEN path.stem ELSE path.stem \o path.ext

RECURSIVE CrawlDirs(_, _, _)
\* the loop of crawl_up: one enclosing directory per turn, as long as the
\* directory holds an __init__ file (init_dirs: the directories that do).
CrawlDirs(dir, mod, init_dirs) ==
    IF dir # <<>> /\ dir \in init_dirs
    THEN CrawlDirs(Front(dir), IF mod = <<"__init__">> THEN <<Last(dir)>>
                                ELSE <<Last(dir)>> \o mod, init_dirs)
    ELSE mod

\* crawl_up(filename)[1]
crawl_up(path, init_dirs) == CrawlDirs(path.dir, <<strip_py(path)>>, init_dirs)

\* os.path.join(top_dir, path)
path_join(top, path) ==
    IF path.abs THEN path
    ELSE [path EXCEPT !.abs = top.abs, !.dir = top.dir \o path.dir]

\* os.path.abspath(path) in working directory cwd
abspath(path, cwd) ==
    IF path.abs THEN path ELSE [path EXCEPT !.abs = TRUE, !.dir = cwd \o path.dir]

(***************************************************************************)
(* Function sites (base.py)                                                *)
(***************************************************************************)

Abs(x) == IF x < 0 THEN -x ELSE x

Tok(t, v) == [t |-> t, v |-> v]
IsLeaf(tok) == tok.t \notin {"TNAME", "NODE"}

\* get_funcname: every enclosing class and function name, then the name
get_funcname(site) == [i \in 1..Len(site.scope) |-> site.scope[i].name] \o <<site.name>>

\* is_method answering False for every node
is_method_never(site) == FALSE

\* is_method: the nearest enclosing class or function is a class
is_method(site) == site.scope # <<>> /\ Last(site.scope).k = "class"

\* get_decorators: the NAME leaves that are direct children of a decorator
\* node.  These are the decorator's name (a dotted one is a dotted_name
\* node and yields nothing) and, in a call with one argument that is a
\* name, that argument (several arguments are an arglist node).
get_decorators(site) ==
    { site.decs[i].name[1] : i \in { j \in 1..Len(site.decs) : Len(site.decs[j].name) = 1 } }
    \cup UNION { Range(site.decs[i].arg) : i \in 1..Len(site.decs) }

\* The nodes below a funcdef: [t |-> type, kids |-> children].  A node with
\* one child is the child (the parser collapses it): a `return` or `yield`
\* without a value is the keyword's leaf, not a return_stmt or yield_expr.
Leaf(t) == [t |-> t, kids |-> <<>>]
Node(t, kids) == [t |-> t, kids |-> kids]

\* the funcdef node of a site, over the statements of its suite
FuncDef(site) == Node("funcdef", << Leaf("def"), Leaf("NAME"), Leaf("parameters"),
                                    Leaf(":"), Node("suite", site.suite) >>)

RECURSIVE has_return_exprs_eager(_)
\* has_return_exprs looking into nested definitions too
has_return_exprs_eager(node) ==
    \/ node.t = "return_stmt" /\ Len(node.kids) = 2 /\ node.kids[1].t = "return"
    \/ \E i \in 1..Len(node.kids) : has_return_exprs_eager(node.kids[i])

RECURSIVE has_return_exprs(_)
\* has_return_exprs: RETURN_EXPR matches the node, or a child that is no
\* funcdef and no classdef has one
has_return_exprs(node) ==
    \/ node.t = "return_stmt" /\ Len(node.kids) = 2 /\ node.kids[1].t = "return"
    \/ \E i \in 1..Len(node.kids) :
         node.kids[i].t \notin {"funcdef", "classdef"} /\ has_return_exprs(node.kids[i])

RECURSIVE is_generator(_)
\* is_generator: YIELD_EXPR matches the node, or a child that is no funcdef
\* and no classdef is one
is_generator(node) ==
    \/ node.t = "yield_expr" /\ Len(node.kids) \in {1, 2} /\ node.kids[1].t = "yield"
    \/ \E i \in 1..Len(node.kids) :
         node.kids[i].t \notin {"funcdef", "classdef"} /\ is_generator(node.kids[i])

CountStart ==
    [count |-> 0, selfish |-> FALSE, star |-> FALSE, starstar |-> FALSE,
     skip |-> FALSE, previous_token_is_star |-> FALSE]

\* one turn of the loop with a star that stays remembered over a comma
CountStepSticky(c, child) ==
    IF c.skip THEN [c EXCEPT !.skip = FALSE]
    ELSE IF ~IsLeaf(child) THEN c
    ELSE CASE child.t = "STAR" -> [c EXCEPT !.previous_token_is_star = TRUE]
           [] child.t = "DOUBLESTAR" -> [c EXCEPT !.starstar = TRUE]
           [] child.t = "NAME" ->
                [c EXCEPT !.selfish = @ \/ (c.count = 0 /\ child.v \in {"self", "cls"}),
                          !.count = @ + 1,
                          !.star = @ \/ c.previous_token_is_star,
                          !.previous_token_is_star = FALSE]
           [] child.t = "EQUAL" -> [c EXCEPT !.skip = TRUE]
           [] OTHER -> c

\* one turn of the loop of count_args
CountStep(c, child) ==
    IF c.skip THEN [c EXCEPT !.skip = FALSE]
    ELSE IF ~IsLeaf(child) THEN c
    ELSE LET d == CASE child.t = "STAR" -> [c EXCEPT !.previous_token_is_star = TRUE]
                    [] child.t = "DOUBLESTAR" -> [c EXCEPT !.starstar = TRUE]
                    [] child.t = "NAME" ->
                         [c EXCEPT !.selfish = @ \/ (c.count = 0 /\ child.v \in {"self", "cls"}),
                                   !.count = @ + 1,
                                   !.star = @ \/ c.previous_token_is_star]
                    [] child.t = "EQUAL" -> [c EXCEPT !.skip = TRUE]
                    [] OTHER -> c
         IN  IF child.t # "STAR" THEN [d EXCEPT !.previous_token_is_star = FALSE] ELSE d

RECURSIVE CountLoop(_, _)
CountLoop(c, children) ==
    IF children = <<>> THEN c ELSE CountLoop(CountStep(c, Head(children)), Tail(children))

\* count_args: (count, selfish, star, starstar)
count_args(site) == CountLoop(CountStart, site.args)

(***************************************************************************)
(* Trace-data lookup (fix_annotate_json.py)                                *)
(* A record is [func_name, path, line, has_sig, arg_types, return_type].   *)
(***************************************************************************)

\* the list comprehension of get_types: the indexes of the records with
\* this function name and this file's path
MatchingItems(data, funcname, filename, top_dir, cwd) ==
    { i \in 1..Len(data) :
        /\ data[i].func_name = funcname
        /\ \/ data[i].path = filename
           \/ path_join(top_dir, data[i].path) = abspath(filename, cwd) }

\* items[0] after the stable sort by distance: the earliest of the nearest
NearestItem(data, items, lineno) ==
    CHOOSE i \in items :
        \A j \in items :
            \/ Abs(lineno - data[i].line) < Abs(lineno - data[j].line)
            \/ Abs(lineno - data[i].line) = Abs(lineno - data[j].line) /\ i <= j

\* get_types with the boundary let through: a record exactly line_drift
\* lines away is still used
get_types_boundary(site, funcname, data, filename, top_dir, cwd, line_drift) ==
    LET items == MatchingItems(data, funcname, filename, top_dir, cwd)
        it == NearestItem(data, items, site.lineno)
    IN  IF items = {} THEN [res |-> "none", it |-> 0, log |-> <<>>]
        ELSE IF Abs(site.lineno - data[it].line) > line_drift
        THEN [res |-> "far", it |-> it,
              log |-> << [kind |-> "drift", site |-> site.id, lineno |-> site.lineno,
                          a |-> data[it].line, b |-> 0] >>]
        ELSE IF data[it].has_sig THEN [res |-> "sig", it |-> it, log |-> <<>>]
        ELSE [res |-> "nosig", it |-> it, log |-> <<>>]

\* FixAnnotateJson.get_types: res is "none" (no record), "far" (logged and
\* skipped), "nosig" (a record without 'signature') or "sig"
get_types(site, funcname, data, filename, top_dir, cwd, line_drift) ==
    LET items == MatchingItems(data, funcname, filename, top_dir, cwd)
        it == NearestItem(data, items, site.lineno)
    IN  IF items = {} THEN [res |-> "none", it |-> 0, log |-> <<>>]
        ELSE IF Abs(site.lineno - data[it].line) >= line_drift
        THEN [res |-> "far", it |-> it,
              log |-> << [kind |-> "drift", site |-> site.id, lineno |-> site.lineno,
                          a |-> data[it].line, b |-> 0] >>]
        ELSE IF data[it].has_sig THEN [res |-> "sig", it |-> it, log |-> <<>>]
        ELSE [res |-> "nosig", it |-> it, log |-> <<>>]

(***************************************************************************)
(* Reconciliation (base.py: process_types)                                 *)
(***************************************************************************)

AnyType == Bare("Any")
StarAny == Starred(AnyType)
StarStarAny == DoubleStarred(AnyType)

\* the first loop of process_types: which variadic slots the signature
\* leaves open
OpenStar(c, arg_types) ==
    c.star /\ ~\E i \in 1..Len(arg_types) :
                   StartsWith(arg_types[i], <<P("*")>>)
                   /\ ~StartsWith(arg_types[i], <<P("*"), P("*")>>)
OpenStarStar(c, arg_types) ==
    c.starstar /\ ~\E i \in 1..Len(arg_types) : StartsWith(arg_types[i], <<P("*"), P("*")>>)

\* the argument list after the variadic and receiver adjustments; the
\* list is the record's own (it is changed in place)
AdjustArgs(site, arg_types) ==
    LET c == count_args(site)
        a1 == IF OpenStar(c, arg_types) THEN Append(arg_types, StarAny) ELSE arg_types
        a2 == IF OpenStarStar(c, arg_types) THEN Append(a1, StarStarAny) ELSE a1
    IN  IF c.selfish /\ Len(a2) = c.count - 1 /\ ~is_method(site)
        THEN <<AnyType>> \o a2
        ELSE a2

\* the count the adjusted list is compared with
AdjustedCount(site, arg_types) ==
    LET c == count_args(site)
        n == Len(arg_types) + (IF OpenStar(c, arg_types) THEN 1 ELSE 0)
                            + (IF OpenStarStar(c, arg_types) THEN 1 ELSE 0)
    IN  IF c.selfish /\ n = c.count - 1 /\ is_method(site) THEN c.count - 1 ELSE c.count

OptionalAny == Wrap("Optional", AnyType)

\* the return type after the 'None' widening and the generator wrapping
AdjustReturn(site, ret_type) ==
    LET r1 == IF ret_type = Bare("None") /\ has_return_exprs(FuncDef(site))
              THEN OptionalAny ELSE ret_type
    IN  IF is_generator(FuncDef(site))
           /\ ~(r1 = Bare("Iterator") \/ StartsWith(r1, <<W(<<"Iterator">>), P("[")>>))
        THEN Wrap("Iterator",
                  IF StartsWith(r1, <<W(<<"Optional">>), P("[")>>)
                  THEN SubSeq(r1, 3, Len(r1) - 1) ELSE r1)
        ELSE r1

\* the annotation made of the list raw and a return type: all is what
\* update_type_names made of the argument types and then of the return type
Typed(raw, all) ==
    [ok |-> TRUE, raw |-> raw, arg_types |-> Front(all.text), ret_type |-> Last(all.text),
     pend |-> all.pend, log |-> <<>>]

\* process_types with the type names resolved before the counts are
\* compared: a refused signature leaves its imports registered
process_types_eager(site, arg_types, ret_type, root, pend, current_module) ==
    LET raw == AdjustArgs(site, arg_types)
        count == AdjustedCount(site, arg_types)
        all == UpdateAll(Append(raw, AdjustReturn(site, ret_type)), root,
                         Collected(pend), current_module)
    IN  IF Len(raw) # count
        THEN [ok |-> FALSE, raw |-> raw, arg_types |-> <<>>, ret_type |-> <<>>,
              pend |-> all.pend,
              log |-> << [kind |-> "arity", site |-> site.id, lineno |-> site.lineno,
                          a |-> count, b |-> Len(raw)] >>]
        ELSE Typed(raw, all)

\* process_types without the comparison of the counts
process_types_unchecked(site, arg_types, ret_type, root, pend, current_module) ==
    Typed(AdjustArgs(site, arg_types),
          UpdateAll(Append(AdjustArgs(site, arg_types), AdjustReturn(site, ret_type)), root,
                    Collected(pend), current_module))

\* process_types: ok = FALSE is the logged skip.  raw is the record's list
\* as the call leaves it.
process_types(site, arg_types, ret_type, root, pend, current_module) ==
    LET raw == AdjustArgs(site, arg_types)
        count == AdjustedCount(site, arg_types)
    IN  IF Len(raw) # count
        THEN [ok |-> FALSE, raw |-> raw, arg_types |-> <<>>, ret_type |-> <<>>,
              pend |-> pend,
              log |-> << [kind |-> "arity", site |-> site.id, lineno |-> site.lineno,
                          a |-> count, b |-> Len(raw)] >>]
        ELSE Typed(raw, UpdateAll(Append(raw, AdjustReturn(site, ret_type)), root,
                                  Collected(pend), current_module))

(***************************************************************************)
(* make_annotation (base.py), over the trace-data provider                 *)
(* env is [filename, top_dir, cwd, line_drift, current_module]             *)
(***************************************************************************)

\* what make returns for record `it` once process_types has seen it: data
\* comes back with the record's list as process_types left it
Processed(funcname, it, data, pt) ==
    [ok |-> pt.ok, arg_types |-> pt.arg_types, ret_type |-> pt.ret_type,
     pend |-> pt.pend, data |-> [data EXCEPT ![it].arg_types = pt.raw],
     log |-> pt.log,
     lookups |-> << [funcname |-> funcname, res |-> IF pt.ok THEN "sig" ELSE "arity",
                     it |-> it] >>]

\* make (inside make_annotation): one lookup and its reconciliation
make(site, funcname, data, root, pend, env) ==
    LET sig_data == get_types(site, funcname, data, env.filename, env.top_dir,
                              env.cwd, env.line_drift)
    IN  IF sig_data.res = "sig"
        THEN Processed(funcname, sig_data.it, data,
                       process_types(site, data[sig_data.it].arg_types,
                                     data[sig_data.it].return_type,
                                     root, pend, env.current_module))
        ELSE [ok |-> FALSE, arg_types |-> <<>>, ret_type |-> <<>>, pend |-> pend,
              data |-> data, log |-> sig_data.log,
              lookups |-> << [funcname |-> funcname, res |-> sig_data.res,
                              it |-> sig_data.it] >>]

\* the second half of make_annotation: res is the lookup by qualified name;
\* for a classmethod or staticmethod it found nothing for, the bare name
\* is looked up
MakeAgain(site, res, root, env) ==
    IF ~res.ok /\ get_decorators(site) \cap {"staticmethod", "classmethod"} # {}
    THEN [make(site, <<site.name>>, res.data, root, res.pend, env)
            EXCEPT !.log = res.log \o @, !.lookups = res.lookups \o @]
    ELSE res

\* BaseFixAnnotateFromSignature.make_annotation
make_annotation(site, data, root, pend, env) ==
    MakeAgain(site, make(site, get_funcname(site), data, root, pend, env), root, env)

(***************************************************************************)
(* FixAnnotateCommand (fix_annotate_command.py): one subprocess per site.  *)
(* What the command did is [out, arg_types, return_type], out one of       *)
(* "signature" (exit 0, a signature record), "exit2", "exit" (another      *)
(* non-zero status), "oserror" (it could not be started), "garbage" (exit  *)
(* 0, output that is no signature record).                                 *)
(***************************************************************************)

\* the suffix of a numbered type variable (a backquote and a number)
Tick == [k |-> "t", parts |-> <<"1">>, colon |-> 0]
TupleEmpty == << W(<<"Tuple">>), P("["), P("]") >>
TupleOfAny == << W(<<"Tuple">>), P("["), W(<<"Any">>), P(","), Ellipsis, P("]") >>

IsTick(tok) == tok = Tick

\* cleanup: 'Tuple[]' is 'Tuple[Any, ...]', the suffix of a type variable goes
cleanup(s) == IF s = TupleEmpty THEN TupleOfAny ELSE SelectSeq(s, LAMBDA tok : ~IsTick(tok))

Outcomes == {"signature", "exit2", "exit", "oserror", "garbage"}

\* FixAnnotateCommand.get_types: raised = TRUE is an exception that leaves
\* it (json.loads, data[0]['signature'], and bytes.encode under Python 3)
command_get_types(site, ran, python) ==
    CASE ran.out = "signature" ->
           [res |-> "sig", raised |-> FALSE, log |-> <<>>,
            arg_types |-> [i \in 1..Len(ran.arg_types) |-> cleanup(ran.arg_types[i])],
            return_type |-> cleanup(ran.return_type)]
      [] ran.out = "exit2" ->
           [res |-> "none", raised |-> FALSE, log |-> <<>>,
            arg_types |-> <<>>, return_type |-> <<>>]
      [] ran.out = "exit" ->
           [res |-> "none", raised |-> python = 3,
            log |-> IF python = 3 THEN <<>>
                    ELSE << [kind |-> "command", site |-> site.id, lineno |-> site.lineno,
                             a |-> 0, b |-> 0] >>,
            arg_types |-> <<>>, return_type |-> <<>>]
      [] ran.out = "oserror" ->
           [res |-> "none", raised |-> FALSE,
            log |-> << [kind |-> "command", site |-> site.id, lineno |-> site.lineno,
                        a |-> 0, b |-> 0] >>,
            arg_types |-> <<>>, return_type |-> <<>>]
      [] OTHER ->
           [res |-> "none", raised |-> TRUE, log |-> <<>>,
            arg_types |-> <<>>, return_type |-> <<>>]

\* make (inside make_annotation) over what get_types gave
CommandMake(site, g, pt) ==
    IF g.res = "sig" /\ ~g.raised
    THEN [ok |-> pt.ok, raised |-> FALSE, arg_types |-> pt.arg_types,
          ret_type |-> pt.ret_type, pend |-> pt.pend, log |-> pt.log]
    ELSE [ok |-> FALSE, raised |-> g.raised, arg_types |-> <<>>, ret_type |-> <<>>,
          pend |-> pt.pend, log |-> g.log]

\* the second call of make for a classmethod or staticmethod: the command
\* is run again for the same line
CommandAgain(site, res) ==
    IF ~res.ok /\ ~res.raised /\ get_decorators(site) \cap {"staticmethod", "classmethod"} # {}
    THEN [res EXCEPT !.log = @ \o @]
    ELSE res

\* BaseFixAnnotateFromSignature.make_annotation over FixAnnotateCommand
command_make_annotation(site, g, root, pend, current_module) ==
    CommandAgain(site,
        CommandMake(site, g,
            IF g.res = "sig" /\ ~g.raised
            THEN process_types(site, g.arg_types, g.return_type, root, pend, current_module)
            ELSE [ok |-> FALSE, arg_types |-> <<>>, ret_type |-> <<>>, pend |-> pend,
                  log |-> <<>>]))

(***************************************************************************)
(* BaseFixAnnotate (base.py): should_skip and the two annotation writers   *)
(***************************************************************************)

\* counter = None: a number no decrement of a budget comes to
NoCounter == -100

RECURSIVE ScanPy3(_)
\* the last loop of should_skip, over the children of the argument node:
\* TRUE when a parameter is a node (name: type) or is followed by a colon
ScanPy3(it) ==
    IF it = <<>> THEN FALSE
    ELSE
      LET first == Head(it)
          starred == first.t \in {"STAR", "DOUBLESTAR"}
          rest0 == IF starred THEN Tail(Tail(it)) ELSE Tail(it)
          ch == IF starred THEN Head(Tail(it)) ELSE first
      IN  IF starred /\ Tail(it) = <<>> THEN FALSE
          ELSE IF first.t = "STAR" /\ ch.t = "COMMA" THEN ScanPy3(rest0)
          ELSE IF ch.t = "TNAME" THEN TRUE
          ELSE IF rest0 = <<>> THEN FALSE
          ELSE IF Head(rest0).t = "COLON" THEN TRUE
          ELSE IF Head(rest0).t = "EQUAL"
               THEN (IF Len(rest0) < 3 THEN FALSE ELSE ScanPy3(SubSeq(rest0, 4, Len(rest0))))
               ELSE ScanPy3(Tail(rest0))

\* the argument node is a leaf (one plain parameter): it has no children
ArgsIsLeaf(site) == Len(site.args) = 1 /\ IsLeaf(site.args[1])

\* should_skip without the test of the counter
should_skip_unbounded(site, c) ==
    \/ site.parcomment
    \/ site.body.typed
    \/ site.body.later
    \/ ~ArgsIsLeaf(site) /\ ScanPy3(site.args)

\* BaseFixAnnotate.should_skip
should_skip(site, counter) ==
    \/ counter # NoCounter /\ counter <= 0
    \/ site.parcomment
    \/ site.body.typed
    \/ site.body.later
    \/ ~ArgsIsLeaf(site) /\ ScanPy3(site.args)

\* the PATTERN of BaseFixAnnotate: a funcdef with a return annotation, or
\* whose ')' leaf was rewritten by add_py3_annot, does not match
Matches(site) == ~site.retann

StrLen(parts) ==
    LET RECURSIVE Sum(_)
        Sum(q) == IF q = <<>> THEN 0 ELSE Len(Head(q)) + Sum(Tail(q))
    IN  Sum(parts) + (IF Len(parts) > 1 THEN Len(parts) - 1 ELSE 0)

RECURSIVE TypeLen(_)
\* len() of a type string
TypeLen(t) == IF t = <<>> THEN 0 ELSE StrLen(Head(t).parts) + TypeLen(Tail(t))

RECURSIVE JoinedLen(_)
\* len(', '.join(argtypes))
JoinedLen(types) ==
    IF types = <<>> THEN 0
    ELSE TypeLen(Head(types)) + (IF Len(types) > 1 THEN 2 ELSE 0) + JoinedLen(Tail(types))

LongThreshold == 64
ManyArgs == 5

\* use_py2_long_form: 'single' and 'multi' both answer False
use_py2_long_form(comment_style, argtypes, restype) ==
    LET short_len == 1 + JoinedLen(argtypes) + 5 + TypeLen(restype)
        degen_len == 9 + TypeLen(restype)
    IN  IF comment_style = "single" THEN FALSE
        ELSE IF comment_style = "multi" THEN FALSE
        ELSE (short_len > LongThreshold \/ Len(argtypes) > ManyArgs) /\ short_len > degen_len

NoAnnot == [style |-> "none", args |-> <<>>, ret |-> <<>>, long |-> FALSE]

\* add_py3_annot: every parameter leaf gets ': type', the ')' gets '-> type'
add_py3_annot(site, argtypes, restype) ==
    [site EXCEPT !.annot = [style |-> "py3", args |-> argtypes, ret |-> restype, long |-> FALSE],
                 !.retann = TRUE]

\* str.strip('*') on a type string
StripStars(t) == IF t # <<>> /\ Head(t) = P("*") 
                 THEN (IF Len(t) > 1 /\ t[2] = P("*") THEN SubSeq(t, 3, Len(t)) ELSE Tail(t))
                 ELSE t

\* The prefix of a leaf of the parameter list: old is the comment the
\* source has there, set / arg / fill are what set_prefix wrote (fill: the
\* type is the filler 'Any' of an empty list).
NoPrefix == [set |-> FALSE, arg |-> <<>>, old |-> "", fill |-> FALSE]

\* set_prefix (inside insert_long_form) on child k; the empty type (the
\* '' put in for the receiver) writes no comment
set_prefix(st, k) ==
    [st EXCEPT !.argtypes = IF @ = <<>> THEN @ ELSE Tail(@),
               !.pre[k] = [set |-> TRUE,
                           arg |-> IF st.argtypes = <<>> THEN AnyType
                                   ELSE StripStars(Head(st.argtypes)),
                           old |-> @.old,
                           fill |-> st.argtypes = <<>>]]

\* the first NAME leaf of a method: '' goes in front of the types when it
\* is self or cls
CheckSelf(st, child) ==
    IF st.check_self /\ child.t = "NAME"
    THEN [st EXCEPT !.check_self = FALSE,
                    !.argtypes = IF child.v \in {"self", "cls"} THEN << <<>> >> \o @ ELSE @]
    ELSE st

\* a comma raises the flag, the leaf after it takes the next type
FlagStep(st, child, k) ==
    IF child.v = "," THEN [st EXCEPT !.flag = TRUE]
    ELSE IF st.flag THEN [set_prefix(st, k) EXCEPT !.flag = FALSE]
    ELSE st

\* one turn of the loop of insert_long_form
LongStep(st, child, k) ==
    IF ~IsLeaf(child) THEN st ELSE FlagStep(CheckSelf(st, child), child, k)

RECURSIVE LongLoop(_, _, _)
LongLoop(st, children, k) ==
    IF k > Len(children) THEN st
    ELSE LongLoop(LongStep(st, children[k], k), children, k + 1)

\* the end of insert_long_form: the trailing comma, the ')' takes the next
\* type, and `assert not argtypes`
LongEnd(st, children) ==
    [pre |-> st.pre, raised |-> st.argtypes # <<>>,
     need_comma |-> /\ Len(children) >= 1
                    /\ Last(children).t # "COMMA"
                    /\ ~(/\ Len(children) >= 2
                         /\ Last(children).t = "NAME"
                         /\ children[Len(children) - 1].t \in {"STAR", "DOUBLESTAR"})]

\* insert_long_form: pre is the prefix of every leaf of the parameter list
\* and, last, of the ')'
insert_long_form(site, argtypes) ==
    LongEnd(set_prefix(LongLoop([argtypes |-> argtypes, flag |-> FALSE,
                                 check_self |-> is_method(site), pre |-> site.argprefix],
                                site.args, 1),
                       Len(site.args) + 1),
            site.args)

\* the lines insert_long_form adds: a leaf whose prefix held a comment was
\* on a line of its own already
LongFormLines(pre) ==
    Cardinality({ k \in 1..Len(pre) : pre[k].set /\ pre[k].old = "" })

\* the comment add_py2_annot writes, and a type comment the source has
AnnotLine == "# type: (annotation)"
SourceTypeLine == "# type: (source)"
is_type_comment(comment) == comment \in {AnnotLine, SourceTypeLine}

\* the prefix of the INDENT leaf with the comment written over its first
\* line (a type comment or nothing) and the other lines kept
IndentPrefixOver(prefix) ==
    << AnnotLine >> \o (IF prefix = <<>> THEN <<>> ELSE Tail(prefix))

\* the prefix of the INDENT leaf after add_py2_annot: the comment, the
\* first line when it is no type comment, the other lines
IndentPrefix(prefix) ==
    IF prefix # <<>> /\ ~is_type_comment(prefix[1])
    THEN << AnnotLine >> \o prefix
    ELSE << AnnotLine >> \o (IF prefix = <<>> THEN <<>> ELSE Tail(prefix))

\* the second half of add_py2_annot: lf is what insert_long_form did, or
\* the prefixes as they were for the summary form
WriteComment(site, argtypes, restype, long, lf) ==
    IF lf.raised
    THEN [ok |-> FALSE, raised |-> TRUE, site |-> site, log |-> <<>>]
    ELSE [ok |-> TRUE, raised |-> FALSE,
          site |-> [site EXCEPT !.body = [shape |-> "block", typed |-> TRUE,
                                          prefix |-> IndentPrefix(@.prefix),
                                          later |-> @.later],
                                !.parcomment = @ \/ long,
                                !.argprefix = lf.pre,
                                !.trailing_comma = @ \/ lf.need_comma,
                                !.added = @ + (IF site.body.shape = "compact" THEN 1 ELSE 0)
                                            + (Len(IndentPrefix(site.body.prefix))
                                               - Len(site.body.prefix))
                                            + (IF long THEN LongFormLines(lf.pre) ELSE 0),
                                !.annot = [style |-> "py2", args |-> argtypes,
                                           ret |-> restype, long |-> long]],
          log |-> <<>>]

\* add_py2_annot with the comment written over whatever the body starts with
add_py2_annot_over(site, argtypes, restype, comment_style) ==
    [ok |-> TRUE, raised |-> FALSE,
     site |-> [site EXCEPT !.body = [@ EXCEPT !.shape = "block", !.typed = TRUE,
                                              !.prefix = IndentPrefixOver(@)],
                           !.annot = [style |-> "py2", args |-> argtypes,
                                      ret |-> restype, long |-> FALSE]],
     log |-> <<>>]

\* add_py2_annot that makes no block of a one-line body
add_py2_annot_block_only(site, argtypes, restype, comment_style) ==
    IF site.body.shape # "block"
    THEN [ok |-> FALSE, raised |-> FALSE, site |-> site,
          log |-> << [kind |-> "oneline", site |-> site.id, lineno |-> site.lineno,
                      a |-> 0, b |-> 0] >>]
    ELSE WriteComment(site, argtypes, restype, FALSE,
                      [pre |-> site.argprefix, raised |-> FALSE, need_comma |-> FALSE])

\* add_py2_annot: ok = FALSE is 'cannot insert annotation for one-line
\* function', or raised = TRUE an assertion of insert_long_form that failed.
\* A one-line body whose first leaf has a blank prefix is first made a block.
add_py2_annot(site, argtypes, restype, comment_style) ==
    IF site.body.shape = "continued"
    THEN [ok |-> FALSE, raised |-> FALSE, site |-> site,
          log |-> << [kind |-> "oneline", site |-> site.id, lineno |-> site.lineno,
                      a |-> 0, b |-> 0] >>]
    ELSE IF use_py2_long_form(comment_style, argtypes, restype)
    THEN WriteComment(site, argtypes, restype, TRUE, insert_long_form(site, argtypes))
    ELSE WriteComment(site, argtypes, restype, FALSE,
                      [pre |-> site.argprefix, raised |-> FALSE, need_comma |-> FALSE])

(***************************************************************************)
(* FixAnnotateAny (fix_annotate_any.py)                                    *)
(***************************************************************************)

AnyStart == [stars |-> <<>>, inferred_type |-> <<>>, in_default |-> FALSE,
             at_start |-> TRUE, argtypes |-> <<>>]

\* one turn of the loop of FixAnnotateAny.make_annotation
AnyStep(c, child, method, decorators) ==
    IF ~IsLeaf(child) THEN c
    ELSE IF child.t \in {"STAR", "DOUBLESTAR"}
    THEN [c EXCEPT !.stars = @ \o (IF child.t = "STAR" THEN <<P("*")>> ELSE <<P("*"), P("*")>>)]
    ELSE IF child.t = "NAME" /\ ~c.in_default
    THEN IF ~method \/ ~c.at_start \/ "staticmethod" \in decorators
         THEN [c EXCEPT !.inferred_type = AnyType]
         ELSE IF child.v = "self" \/ "classmethod" \in decorators THEN c
              ELSE [c EXCEPT !.inferred_type = AnyType]
    ELSE IF child.t = "EQUAL" THEN [c EXCEPT !.in_default = TRUE]
    ELSE IF c.in_default /\ child.t # "COMMA"
    THEN CASE child.t = "NUMBER" -> [c EXCEPT !.inferred_type = Bare(child.v)]
           [] child.t = "STRING" -> [c EXCEPT !.inferred_type = Bare(child.v)]
           [] OTHER -> c
    ELSE IF child.t = "COMMA"
    THEN [c EXCEPT !.argtypes = IF c.inferred_type # <<>>
                                THEN Append(@, c.stars \o c.inferred_type) ELSE @,
                   !.stars = <<>>, !.inferred_type = <<>>,
                   !.in_default = FALSE, !.at_start = FALSE]
    ELSE c

RECURSIVE AnyLoop(_, _, _, _)
AnyLoop(c, children, method, decorators) ==
    IF children = <<>> THEN c
    ELSE AnyLoop(AnyStep(c, Head(children), method, decorators), Tail(children),
                 method, decorators)

\* FixAnnotateAny.make_annotation
any_make_annotation(site) ==
    LET c == AnyLoop(AnyStart, site.args, is_method(site), get_decorators(site))
    IN  [ok |-> TRUE,
         arg_types |-> IF c.inferred_type # <<>>
                       THEN Append(c.argtypes, c.stars \o c.inferred_type) ELSE c.argtypes,
         ret_type |-> IF site.name = "__init__" \/ ~has_return_exprs(FuncDef(site))
                      THEN Bare("None") ELSE AnyType]

(***************************************************************************)
(* FixAnnotateDocs (fix_annotate_docs.py).  A docstring is held as what    *)
(* the docstring parser makes of it: [present, map, ret], map the          *)
(* documented parameters in order, ret = <<>> for no documented return.    *)
(***************************************************************************)

NoDoc == [present |-> FALSE, map |-> <<>>, ret |-> <<>>]

SPECIAL_METHOD_RETURN == [name \in {"__init__"} |-> Bare("None")]

\* find_classdef: any enclosing class, however far out
find_classdef(site) == \E i \in 1..Len(site.scope) : site.scope[i].k = "class"

\* get_docstring: nothing for a body that is not an indented block
get_docstring(site) ==
    IF site.body.shape = "block" THEN site.doc ELSE NoDoc

\* keep_arg
keep_arg(i, arg_name, typ) == ~(i = 0 /\ arg_name \in {"self", "cls"} /\ typ = <<>>)

\* argtype_map.get(arg_name)
DocType(map, arg_name) ==
    LET hits == { i \in 1..Len(map) : map[i].name = arg_name }
    IN  IF hits = {} THEN <<>> ELSE map[CHOOSE i \in hits : \A j \in hits : j <= i].typ

RECURSIVE DocArgList(_, _, _)
\* the loop of make_annotation over a typedargslist: (name, kind) per parameter
DocArgList(children, consume, kind) ==
    IF children = <<>> THEN <<>>
    ELSE LET arg == Head(children)
         IN  IF consume /\ arg.t = "NAME"
             THEN << [name |-> arg.v, kind |-> kind] >> \o DocArgList(Tail(children), FALSE, kind)
             ELSE IF consume /\ arg.t = "STAR" THEN DocArgList(Tail(children), consume, <<P("*")>>)
             ELSE IF consume /\ arg.t = "DOUBLESTAR"
                  THEN DocArgList(Tail(children), consume, <<P("*"), P("*")>>)
             ELSE IF arg.t = "COMMA" THEN DocArgList(Tail(children), TRUE, <<>>)
             ELSE DocArgList(Tail(children), consume, kind)

\* does_tree_import(None, word, node): a binding of the word anywhere at
\* the top of the file, the body of a top-level `if` included
does_tree_import(word, root, top_names) ==
    \/ word \in top_names
    \/ \E i \in 1..Len(root) :
         \/ is_import_stmt(root[i]) /\ \E p \in get_import_info(root[i]) : p.binding = <<word>>
         \/ \E j \in 1..Len(SuiteImports(root[i])) :
                 \E p \in get_import_info(SuiteImports(root[i])[j]) : p.binding = <<word>>

\* FixAnnotateDocs.type_updater: the word stays as it is
docs_type_updater(tok, root, top_names, pend, current_module) ==
    IF tok.k = "w" /\ Len(tok.parts) = 1 /\ ~does_tree_import(tok.parts[1], root, top_names)
    THEN [text |-> tok, pend |-> touch_typing_import(tok.parts[1], root, pend, current_module)]
    ELSE [text |-> tok, pend |-> pend]

RECURSIVE docs_update_type_names(_, _, _, _, _)
\* update_type_names with the docstring fixer's type_updater
docs_update_type_names(words, root, top_names, acc, current_module) ==
    IF words = <<>> THEN acc
    ELSE docs_update_type_names(Tail(words), root, top_names,
             Collect(acc, docs_type_updater(Head(words), root, top_names, acc.pend,
                                            current_module)),
             current_module)

RECURSIVE DocsUpdateAll(_, _, _, _, _)
DocsUpdateAll(types, root, top_names, acc, current_module) ==
    IF types = <<>> THEN acc
    ELSE DocsUpdateAll(Tail(types), root, top_names,
             Collect(acc, docs_update_type_names(Head(types), root, top_names,
                                                 Collected(acc.pend), current_module)),
             current_module)

\* FixAnnotateDocs.make_annotation
docs_make_annotation(site, root, top_names, pend, current_module, default_return_type) ==
    LET own == get_docstring(site)
        method == find_classdef(site)
        docstring == IF ~own.present /\ site.name = "__init__" /\ method
                     THEN site.cdoc ELSE own
        default_return == IF method /\ site.name \in DOMAIN SPECIAL_METHOD_RETURN
                          THEN SPECIAL_METHOD_RETURN[site.name] ELSE default_return_type
        ret_type == IF docstring.ret = <<>> THEN default_return ELSE docstring.ret
        arg_list == IF ArgsIsLeaf(site)
                    THEN << [name |-> site.args[1].v, kind |-> <<>>] >>
                    ELSE DocArgList(site.args, TRUE, <<>>)
        typ(i) == DocType(docstring.map, arg_list[i].name)
        kept == { i \in 1..Len(arg_list) : ~method \/ keep_arg(i - 1, arg_list[i].name, typ(i)) }
        RECURSIVE Build(_)
        Build(i) == IF i > Len(arg_list) THEN <<>>
                    ELSE (IF i \in kept
                          THEN << arg_list[i].kind
                                  \o StripStars(IF typ(i) = <<>> THEN AnyType ELSE typ(i)) >>
                          ELSE <<>>) \o Build(i + 1)
    IN  IF ~docstring.present \/ (docstring.map = <<>> /\ docstring.ret = <<>>)
        THEN [ok |-> FALSE, arg_types |-> <<>>, ret_type |-> <<>>, pend |-> pend]
        ELSE Typed(Build(1), DocsUpdateAll(Append(Build(1), ret_type), root, top_names,
                                       Collected(pend), current_module))

\* BaseFixAnnotate.patch_imports: 'Any' in one of the types calls
\* touch_import('typing', 'Any'), which writes the import unless the file
\* binds Any from typing already
TypeHasAny(t) == \E i \in 1..Len(t) : \E j \in 1..Len(t[i].parts) : t[i].parts[j] = "Any"

ImportsFrom(package, name, root) ==
    \E i \in 1..Len(root) :
        LET stmts == IF is_import_stmt(root[i]) THEN << root[i] >>
                     ELSE SuiteImports(root[i])
        IN  \E j \in 1..Len(stmts) :
                /\ stmts[j].form = "from" /\ stmts[j].package = package
                /\ \E p \in get_import_info(stmts[j]) : p.binding = <<name>>

base_patch_imports(types, root) ==
    IF (\E i \in 1..Len(types) : TypeHasAny(types[i])) /\ ~ImportsFrom(<<"typing">>, "Any", root)
    THEN InsertAt(root, get_bottom_of_imports(root), FromImport(<<"typing">>, "Any"))
    ELSE root

(***************************************************************************)
(* The file as the parser sees it: line numbers and the match set          *)
(***************************************************************************)

RECURSIVE SumAdded(_, _)
SumAdded(ss, ids) ==
    IF ids = {} THEN 0
    ELSE LET i == CHOOSE x \in ids : TRUE IN ss[i].added + SumAdded(ss, ids \ {i})

\* the number of lines of one child of the root
Height(item, ss) ==
    CASE item.kind = "import" -> 1
      [] item.kind = "tcblock" -> 1 + Len(item.body)
      [] item.kind = "tcline" -> 1
      [] item.kind = "docstring" -> 1
      [] OTHER -> item.h + SumAdded(ss, Range(item.sites))

RECURSIVE StartLine(_, _, _)
\* the line on which child k of the root starts
StartLine(root, ss, k) ==
    IF k = 1 THEN 1 ELSE StartLine(root, ss, k - 1) + Height(root[k - 1], ss)

\* the child of the root that holds site id
ItemOf(root, id) ==
    CHOOSE k \in 1..Len(root) : root[k].kind = "stmt" /\ id \in Range(root[k].sites)

\* the lines written above the `def` of site id inside its own statement
Shift(root, ss, id) ==
    SumAdded(ss, { j \in Range(root[ItemOf(root, id)].sites) : ss[j].off < ss[id].off })

\* the tree a parse of the written file gives: every site at its line, the
\* written comments and annotations part of the source
Parse(root, ss) ==
    [ r |-> [ k \in 1..Len(root) |->
                IF root[k].kind = "stmt"
                THEN [root[k] EXCEPT !.h = Height(root[k], ss)]
                ELSE root[k] ],
      s |-> [ id \in DOMAIN ss |->
                [ss[id] EXCEPT !.off = @ + Shift(root, ss, id),
                               !.added = 0,
                               !.lineno = StartLine(root, ss, ItemOf(root, id))
                                          + ss[id].off + Shift(root, ss, id),
                               !.pmatch = Matches(ss[id])] ] ]

\* pytree.Base.depth of the funcdef node
Depth(site) == 1 + 2 * Len(site.scope) + (IF site.decs # <<>> THEN 1 ELSE 0)

RECURSIVE SortByDepth(_, _)
SortByDepth(ss, ids) ==
    IF ids = {} THEN <<>>
    ELSE LET m == CHOOSE i \in ids : \A j \in ids \ {i} :
                      \/ Depth(ss[i]) > Depth(ss[j])
                      \/ Depth(ss[i]) = Depth(ss[j]) /\ i < j
         IN  <<m>> \o SortByDepth(ss, ids \ {m})

\* the match set of one fixer: the sites the pattern matched at parse time,
\* deepest first, in source order among equals
MatchOrder(ss) == SortByDepth(ss, { id \in DOMAIN ss : ss[id].pmatch })

\* the names bound by top-level definitions
TopNames(ss) == { ss[id].name : id \in { i \in DOMAIN ss : ss[i].scope = <<>> } }

(***************************************************************************)
(* The run: lib2to3 hands every matched site to each fixer of the chain,   *)
(* one fixer after the other (typeright/__main__.py builds the chain).     *)
(***************************************************************************)

VARIABLES
    root,       \* the children of the root node
    sites,      \* the funcdef nodes, by id (ids in source order)
    type_info,  \* the trace records the provider reads (options['type_info'])
    counter,    \* BaseFixAnnotate.counter
    pending,    \* needed_imports / needed_type_checking_imports of each fixer
    opts,       \* the options of the invocation
    run,        \* 1 for the first run on the file, 2 for a run on its output
    fx,         \* the position in the chain of the fixer at work
    queue,      \* the sites the fixer at work has still to see
    source,     \* the file as this run read it
    last,       \* what the last call of transform did
    pool        \* the workers of a parallel run (-j N), each on files of its own

vars == << root, sites, type_info, counter, pending, opts, run, fx, queue, source, last,
           pool >>

SigFixers == {"json", "docs", "command"}
NoPendingAll == [f \in SigFixers |-> NoPending]

\* set_filename and the class attributes the lookup reads
Env ==
    [filename |-> opts.filename, top_dir |-> opts.top_dir, cwd |-> opts.cwd,
     line_drift |-> opts.line_drift,
     current_module |-> crawl_up(opts.filename, opts.init_dirs)]

\* refactor_tree: the next site of this fixer, or the match set anew for
\* the next fixer of the chain
NextPos(f, q) ==
    IF q # <<>> THEN [fx |-> f, queue |-> q]
    ELSE IF f < Len(opts.fixers) THEN [fx |-> f + 1, queue |-> MatchOrder(sites)]
    ELSE [fx |-> f, queue |-> <<>>]

\* the annotation writer transform picks.  add_py3_annot asserts that every
\* parameter it comes to is a NAME leaf.
Annotate(site, argtypes, restype) ==
    IF opts.annotation_style = "py3"
    THEN [ok |-> TRUE, raised |-> \E i \in 1..Len(site.args) : site.args[i].t = "TNAME",
          site |-> add_py3_annot(site, argtypes, restype), log |-> <<>>]
    ELSE add_py2_annot(site, argtypes, restype, opts.comment_style)

\* an exception leaves transform: refactor_tree and refactor_file end with
\* it, the file is not written and no other site is visited
Raise(fixer, id, lookups, log) ==
    /\ root' = source.root
    /\ sites' = source.sites
    /\ fx' = Len(opts.fixers)
    /\ queue' = <<>>
    /\ last' = [op |-> "raise", fixer |-> fixer, run |-> run, id |-> id,
                site |-> sites[id], root |-> root, sites |-> sites,
                type_info |-> type_info, counter |-> counter,
                lookups |-> lookups, log |-> log,
                arg_types |-> <<>>, ret_type |-> <<>>, pend |-> NoPending]
    /\ UNCHANGED << type_info, counter, pending, opts, run, source, pool >>

\* BaseFixAnnotate.transform around one fixer's should_skip, make_annotation
\* and patch_imports.  ma is what make_annotation returns: [ok, arg_types,
\* ret_type, pend] and, from the trace-data fixer, [data, log, lookups].
Transform(fixer, id, skip, ma) ==
    LET site == sites[id]
        tried == Matches(site) /\ ~skip
        done == tried /\ ma.ok
        an == Annotate(site, ma.arg_types, ma.ret_type)
        pos == NextPos(fx, Tail(queue))
        traced == tried /\ fixer \in {"json", "command"}
    IN  IF done /\ an.raised
        THEN Raise(fixer, id, IF traced THEN ma.lookups ELSE <<>>,
                   IF traced THEN ma.log ELSE <<>>)
        ELSE
        /\ sites' = IF done THEN [sites EXCEPT ![id] = an.site] ELSE sites
        /\ root' = IF ~done THEN root
                   ELSE IF fixer \in SigFixers
                   THEN patch_imports(ma.pend.needed_imports,
                                      ma.pend.needed_type_checking_imports, root)
                   ELSE base_patch_imports(Append(ma.arg_types, ma.ret_type), root)
        /\ counter' = IF done /\ counter # NoCounter THEN counter - 1 ELSE counter
        /\ type_info' = IF traced THEN ma.data ELSE type_info
        /\ pending' = IF fixer \notin SigFixers \/ ~tried THEN pending
                      ELSE [pending EXCEPT ![fixer] = IF done THEN NoPending ELSE ma.pend]
        /\ fx' = pos.fx
        /\ queue' = pos.queue
        /\ last' = [op |-> IF ~Matches(site) THEN "nomatch"
                           ELSE IF skip THEN "skip"
                           ELSE IF ~ma.ok THEN "none"
                           ELSE IF an.ok THEN "annot" ELSE "noinsert",
                    fixer |-> fixer, run |-> run, id |-> id,
                    site |-> site, root |-> root, sites |-> sites,
                    type_info |-> type_info, counter |-> counter,
                    lookups |-> IF traced THEN ma.lookups ELSE <<>>,
                    log |-> (IF traced THEN ma.log ELSE <<>>)
                            \o (IF done THEN an.log ELSE <<>>),
                    arg_types |-> IF done THEN ma.arg_types ELSE <<>>,
                    ret_type |-> IF done THEN ma.ret_type ELSE <<>>,
                    pend |-> IF tried /\ fixer \in SigFixers THEN ma.pend ELSE NoPending]
        /\ UNCHANGED << opts, run, source, pool >>

\* FixAnnotateJson.transform on the next site
JsonTransform ==
    /\ queue # <<>> /\ opts.fixers[fx] = "json"
    /\ Transform("json", Head(queue), should_skip(sites[Head(queue)], counter),
                 make_annotation(sites[Head(queue)], type_info, root, pending["json"], Env))

\* FixAnnotateDocs.transform on the next site
DocsTransform ==
    /\ queue # <<>> /\ opts.fixers[fx] = "docs"
    /\ Transform("docs", Head(queue), FALSE,
                 docs_make_annotation(sites[Head(queue)], root, TopNames(sites),
                                      pending["docs"], Env.current_module,
                                      opts.doc_default_return_type))

\* FixAnnotateAny.transform on the next site
AnyTransform ==
    /\ queue # <<>> /\ opts.fixers[fx] = "any"
    /\ Transform("any", Head(queue), should_skip(sites[Head(queue)], counter),
                 any_make_annotation(sites[Head(queue)]))

\* FixAnnotateCommand.transform on the next site
CommandStep(id, ma) ==
    IF Matches(sites[id]) /\ ~should_skip(sites[id], counter) /\ ma.raised
    THEN Raise("command", id, <<>>, ma.log)
    ELSE Transform("command", id, should_skip(sites[id], counter),
                   [ok |-> ma.ok, arg_types |-> ma.arg_types, ret_type |-> ma.ret_type,
                    pend |-> ma.pend, log |-> ma.log, data |-> type_info,
                    lookups |-> <<>>])

CommandTransform ==
    /\ queue # <<>> /\ opts.fixers[fx] = "command"
    /\ CommandStep(Head(queue),
                   command_make_annotation(sites[Head(queue)],
                       command_get_types(sites[Head(queue)], opts.command[Head(queue)],
                                         opts.python),
                       root, pending["command"], Env.current_module))

MaxRuns == 2

NoSite == [id |-> 0]

\* the written file is Python: no statement was put inside another one
Parses(r) == \A i \in 1..Len(r) : r[i].kind = "tcline" => r[i].stray = <<>>

\* what a run reads: the parse of the file, or the file left alone and no
\* site to visit when the parser rejects it (RefactoringTool.refactor_string)
Reread(r, ss) ==
    IF Parses(r) THEN Parse(r, ss) ELSE [r |-> r, s |-> [id \in {} |-> NoSite]]

\* the tool is run again, with the same options, on the file it wrote
Rerun ==
    /\ queue = <<>> /\ run < MaxRuns
    /\ LET pr == Reread(root, sites)
       IN  /\ root' = pr.r
           /\ sites' = IF Parses(root) THEN pr.s ELSE sites
           /\ queue' = MatchOrder(pr.s)
           /\ source' = [root |-> pr.r, sites |-> sites']
    /\ type_info' = opts.type_info
    /\ counter' = opts.counter
    /\ pending' = NoPendingAll
    /\ run' = run + 1
    /\ fx' = 1
    /\ last' = [op |-> "rerun", fixer |-> "", run |-> run + 1, id |-> 0,
                site |-> NoSite, root |-> root, sites |-> sites,
                type_info |-> type_info, counter |-> counter,
                lookups |-> <<>>, log |-> <<>>, arg_types |-> <<>>, ret_type |-> <<>>,
                pend |-> NoPending]
    /\ UNCHANGED << opts, pool >>

(***************************************************************************)
(* The files, trace data and options the runs start from                   *)
(***************************************************************************)

FromImportAs(package, name, alias) ==
    [kind |-> "import", form |-> "from", package |-> package,
     names |-> << [name |-> <<name>>, alias |-> <<alias>>] >>]

Block == [shape |-> "block", typed |-> FALSE, prefix |-> <<>>, later |-> FALSE]

\* statements of a body
Simple(n) == Node("simple_stmt", << n, Leaf("NEWLINE") >>)
ReturnExpr == Simple(Node("return_stmt", << Leaf("return"), Leaf("NAME") >>))
ReturnBare == Simple(Leaf("return"))
YieldExpr == Simple(Node("yield_expr", << Leaf("yield"), Leaf("NAME") >>))
YieldBare == Simple(Leaf("yield"))
Pass == Simple(Leaf("pass"))
InnerDef(stmts) == Node("funcdef", << Leaf("def"), Leaf("NAME"), Leaf("parameters"),
                                      Leaf(":"), Node("suite", stmts) >>)
InnerClass(stmts) == Node("classdef", << Leaf("class"), Leaf("NAME"), Leaf(":"),
                                         Node("suite", stmts) >>)
Decorated(def) == Node("decorated", << Leaf("decorator"), def >>)
IfStmt(stmts) == Node("if_stmt", << Leaf("if"), Leaf("NAME"), Leaf(":"), Node("suite", stmts) >>)

Def(name, scope, decs, off, args, body, returns, doc) ==
    [id |-> 0, name |-> name, scope |-> scope, decs |-> decs, lineno |-> 0,
     off |-> off, added |-> 0, args |-> args, retann |-> FALSE, parcomment |-> FALSE,
     argprefix |-> [k \in 1..Len(args) + 1 |-> NoPrefix], trailing_comma |-> FALSE,
     body |-> body, suite |-> IF returns THEN << ReturnExpr >> ELSE << Pass >>,
     doc |-> doc, cdoc |-> NoDoc, annot |-> NoAnnot, pmatch |-> FALSE]

\* a top-level function with an indented body that returns a value
Fn(name, args) == Def(name, <<>>, <<>>, 0, args, Block, TRUE, NoDoc)

Stmt(h, defs) == [h |-> h, defs |-> defs]

RECURSIVE BuildItems(_, _)
BuildItems(stmts, n) ==
    IF stmts = <<>> THEN <<>>
    ELSE << [kind |-> "stmt", h |-> Head(stmts).h,
             sites |-> [i \in 1..Len(Head(stmts).defs) |-> n + i]] >>
         \o BuildItems(Tail(stmts), n + Len(Head(stmts).defs))

RECURSIVE AllDefs(_)
AllDefs(stmts) == IF stmts = <<>> THEN <<>> ELSE Head(stmts).defs \o AllDefs(Tail(stmts))

\* the parse of a file with these imports in front of these statements
File(header, stmts) ==
    LET ds == AllDefs(stmts)
    IN  Parse(header \o BuildItems(stmts, 0), [i \in 1..Len(ds) |-> [ds[i] EXCEPT !.id = i]])

Name(v) == Tok("NAME", v)
Comma == Tok("COMMA", ",")
A0 == <<>>
A1 == << Name("a") >>
A2 == << Name("foo"), Comma, Name("bar") >>
ASelf == << Name("self"), Comma, Name("a") >>
ACls == << Name("cls"), Comma, Name("a") >>
AVar == << Name("a"), Comma, Tok("STAR", "*"), Name("args"), Comma,
           Tok("DOUBLESTAR", "**"), Name("kwargs") >>
AKwOnly == << Name("a"), Comma, Tok("STAR", "*"), Comma, Name("b") >>
AStar == << Name("a"), Comma, Tok("STAR", "*"), Name("args") >>
AKwds == << Name("a"), Comma, Tok("DOUBLESTAR", "**"), Name("kwds") >>
ASix == << Name("a"), Comma, Name("b"), Comma, Name("c"), Comma, Name("d"), Comma,
           Name("e"), Comma, Name("f") >>
ADefault == << Name("a"), Comma, Name("b"), Tok("EQUAL", "="), Tok("NUMBER", "int") >>
ATyped == << Tok("TNAME", "a"), Comma, Name("b") >>

InC == << [k |-> "class", name |-> "C"] >>
\* decorators: the name, and the argument when it is called with one name
Classmethod == << [name |-> <<"classmethod">>, arg |-> <<>>] >>
Staticmethod == << [name |-> <<"staticmethod">>, arg |-> <<>>] >>
Deco == << [name |-> <<"deco">>, arg |-> <<>>] >>
DecoOf(a) == << [name |-> <<"deco">>, arg |-> <<a>>] >>
StrDoc == [present |-> TRUE, map |-> << [name |-> "a", typ |-> Bare("str")] >>,
           ret |-> Bare("str")]

S_f == Stmt(2, << Fn("f", A1) >>)
S_g == Stmt(2, << Fn("g", A1) >>)
S_nop == Stmt(2, << Fn("nop", A2) >>)
S_z == Stmt(2, << Def("z", <<>>, <<>>, 0, A0, Block, FALSE, NoDoc) >>)
S_v == Stmt(2, << Fn("v", AVar) >>)
S_w == Stmt(2, << Fn("w", AKwOnly) >>)
S_va == Stmt(2, << Fn("va", AStar) >>)
S_kw == Stmt(2, << Fn("kw", AKwds) >>)
S_six == Stmt(2, << Fn("six", ASix) >>)
S_d == Stmt(2, << Fn("d", ADefault) >>)
S_s == Stmt(2, << Fn("s", ASelf) >>)
S_C == Stmt(9, << Def("m", InC, <<>>, 1, ASelf, Block, TRUE, NoDoc),
                  Def("k", InC, Classmethod, 4, ACls, Block, TRUE, NoDoc),
                  Def("st", InC, Staticmethod, 7, A1, Block, TRUE, NoDoc) >>)
S_D == Stmt(10, << Def("dp", InC, Deco, 2, A1, Block, TRUE, NoDoc),
                   Def("ds", InC, DecoOf("staticmethod"), 5, A1, Block, TRUE, NoDoc),
                   Def("da", InC, DecoOf("a"), 8, A1, Block, TRUE, NoDoc) >>)
S_c == Stmt(1, << [Fn("c", A1) EXCEPT !.body.shape = "compact"] >>)
S_o == Stmt(2, << [Fn("o", A1) EXCEPT !.body.shape = "continued"] >>)
S_t == Stmt(3, << [Fn("t", A1) EXCEPT !.body.typed = TRUE,
                                        !.body.prefix = << SourceTypeLine >>] >>)
S_p == Stmt(2, << [Fn("p", A1) EXCEPT !.retann = TRUE] >>)
\* comments in front of the first statement, a blank line in front of one
S_cm == Stmt(4, << [Fn("cm", A1) EXCEPT !.body.prefix = << "# hello", "# world" >>] >>)
S_bl == Stmt(4, << [Fn("bl", A1) EXCEPT !.body.prefix = << "", "# hello" >>] >>)
\* a `# type:` comment line in front of a later statement of the body
S_l == Stmt(4, << [Fn("l", A1) EXCEPT !.body.later = TRUE] >>)
\* a per-parameter type comment after the first parameter
S_pc == Stmt(3, << [Fn("pc", A2) EXCEPT !.parcomment = TRUE,
                                         !.argprefix[3].old = SourceTypeLine] >>)
\* a typed *args, a typed keyword-only parameter, a typed **kwargs
S_qs == Stmt(2, << Fn("qs", << Name("a"), Comma, Tok("STAR", "*"), Tok("TNAME", "args") >>) >>)
S_qk == Stmt(2, << Fn("qk", << Name("a"), Comma, Tok("STAR", "*"), Comma,
                               Tok("TNAME", "b") >>) >>)
S_qd == Stmt(2, << Fn("qd", << Tok("DOUBLESTAR", "**"), Tok("TNAME", "kwargs") >>) >>)
\* a documented function with a type comment, with a typed parameter
S_th == Stmt(4, << [Fn("th", A1) EXCEPT !.body.typed = TRUE,
                                         !.body.prefix = << SourceTypeLine >>,
                                         !.doc = StrDoc] >>)
S_qh == Stmt(3, << [Fn("qh", ATyped) EXCEPT !.doc = StrDoc] >>)
S_q1 == Stmt(2, << Fn("q1", << Tok("TNAME", "a") >>) >>)
\* six parameters on three lines, a comment after the first and the fifth,
\* and a comment in front of the first statement
S_sixc == Stmt(5, << [Fn("sixc", ASix) EXCEPT !.argprefix[3].old = "# c1",
                                              !.argprefix[11].old = "# c2",
                                              !.body.prefix = << "# body" >>] >>)
\* a method, a class method
S_M == Stmt(3, << Def("m", InC, <<>>, 1, ASelf, Block, TRUE, NoDoc) >>)
S_K == Stmt(4, << Def("k", InC, Classmethod, 2, ACls, Block, TRUE, NoDoc) >>)
S_q == Stmt(2, << Fn("q", ATyped) >>)
S_h == Stmt(3, << [Fn("h", A1) EXCEPT !.doc = StrDoc] >>)

tInt == Bare("int")
tNone == Bare("None")
tMy == << W(<<"mod2", "MyClass">>) >>
tOther == << W(<<"mod3", "OtherClass">>) >>
tAnother == << W(<<"mod3", "AnotherClass">>) >>
tPkg == << W(<<"pkg", "mod2", "MyClass">>) >>
tList == Wrap("List", tMy)
tTyping == << W(<<"typing", "Optional">>) >>

Mod1 == [abs |-> FALSE, dir |-> <<>>, stem |-> "mod1", ext |-> ".py"]
Other1 == [abs |-> FALSE, dir |-> <<>>, stem |-> "other", ext |-> ".py"]

\* one record of the trace data
Rec(func_name, path, line, arg_types, return_type) ==
    [func_name |-> func_name, path |-> path, line |-> line, has_sig |-> TRUE,
     arg_types |-> arg_types, return_type |-> return_type]

line_drift_default == 5

DefaultOpts ==
    [annotation_style |-> "py2", comment_style |-> "auto",
     line_drift |-> line_drift_default, fixers |-> <<"json">>, counter |-> NoCounter,
     type_info |-> <<>>, filename |-> Mod1, top_dir |-> NoDir, cwd |-> <<"home">>,
     init_dirs |-> {}, doc_default_return_type |-> AnyType,
     command |-> <<>>, python |-> 3]

Scenario(file, o) == [root |-> file.r, sites |-> file.s, opts |-> o]

MaxDrift == 6
MaxSigLen == 3
MaxBudget == 1

IntSig(n) == [i \in 1..n |-> tInt]

Sigs == { IntSig(n) : n \in 0..MaxSigLen }
        \cup { << tInt, Starred(tInt) >>, << tInt, Starred(tInt), DoubleStarred(tInt) >>,
               << tInt, DoubleStarred(tInt) >>,
               << tMy >>, << tMy, tList >> }

\* records for one site at every distance, with as many types as it has parameters
DriftRecs(site) ==
    { Rec(fn, Mod1, site.lineno + d, IntSig(count_args(site).count), tInt) :
        fn \in {get_funcname(site), <<site.name>>},
        d \in { e \in -MaxDrift..MaxDrift : site.lineno + e >= 1 } }

\* records for one site on its line, with signatures of every length
ArityRecs(site) ==
    { Rec(get_funcname(site), path, site.lineno, sig, ret) :
        path \in {Mod1, Other1}, sig \in Sigs, ret \in {tInt, tNone} }

Styles == {"py2", "py3"}
LineDrifts == {line_drift_default, 2}

Singles == { <<S_f>>, <<S_nop>>, <<S_z>>, <<S_v>>, <<S_d>>, <<S_s>>, <<S_C>>, <<S_c>>,
             <<S_o>>, <<S_t>>, <<S_p>>, <<S_q>>, <<S_h>>, <<S_w>>, <<S_va>>, <<S_kw>>, <<S_D>> }

\* one function, one record
LookupScenarios ==
    UNION { LET file == File(<<>>, stmts)
            IN  { Scenario(file, [DefaultOpts EXCEPT !.type_info = <<rec>>,
                                                     !.annotation_style = style,
                                                     !.line_drift = drift]) :
                    rec \in UNION { DriftRecs(file.s[id]) \cup ArityRecs(file.s[id]) :
                                    id \in DOMAIN file.s },
                    style \in Styles, drift \in LineDrifts }
            : stmts \in Singles }

\* one function, two records for it
NearestScenarios ==
    LET file == File(<<>>, <<S_f>>)
        site == file.s[1]
        lines == { site.lineno + e : e \in { x \in -MaxDrift..MaxDrift : site.lineno + x >= 1 } }
    IN  { Scenario(file, [DefaultOpts EXCEPT !.type_info =
                              << [Rec(<<"f">>, Mod1, l1, <<tInt>>, tInt) EXCEPT !.has_sig = sig1],
                                 Rec(<<"f">>, Mod1, l2, <<tMy>>, tInt) >>]) :
            l1 \in lines, l2 \in lines, sig1 \in BOOLEAN }

\* two functions, the first on its record's line, the second at a distance
ShiftScenarios ==
    UNION { LET file == File(<<>>, <<first, S_g>>)
            IN  { Scenario(file, [DefaultOpts EXCEPT !.type_info =
                                      << Rec(<<file.s[1].name>>, Mod1, file.s[1].lineno, <<t>>, tInt),
                                         Rec(<<"g">>, Mod1, file.s[2].lineno + d, <<tInt>>, tInt) >>,
                                      !.annotation_style = style]) :
                    t \in {tInt, tMy, tList}, d \in 0..MaxDrift, style \in Styles }
            : first \in {S_f, S_o, S_c} }

Headers ==
    { <<>>,
      << FromImport(<<"mod3">>, "AnotherClass") >>,
      << FromImport(<<"mod3">>, "AnotherClass"), PlainImport(<<"os">>, NoAlias) >>,
      << PlainImport(<<"os">>, NoAlias), FromImport(<<"mod3">>, "AnotherClass") >>,
      << PlainImport(<<"mod2">>, NoAlias) >>,
      << PlainImport(<<"mod2">>, <<"m2">>) >>,
      << PlainImport(<<"pkg", "mod2">>, NoAlias) >>,
      << PlainImport(<<"pkg", "mod2">>, <<"pm">>) >>,
      << PlainImport(<<"mod2", "MyClass">>, <<"MC">>) >>,
      << FromImport(<<"mod2">>, "MyClass") >>,
      << FromImportAs(<<"mod2">>, "MyClass", "MC2") >>,
      << FromImport(<<"typing">>, "List") >>,
      << [kind |-> "import", form |-> "from", package |-> <<"mod3">>,
          names |-> << [name |-> <<"AnotherClass">>, alias |-> NoAlias],
                       [name |-> <<"OtherClass">>, alias |-> <<"OC">>] >>] >>,
      << [kind |-> "docstring"] >>,
      << FromImport(<<"typing">>, "TYPE_CHECKING"),
         [kind |-> "tcblock", test |-> TypeChecking,
          body |-> << FromImport(<<"mod2">>, "MyClass") >>] >> }

Types == { tInt, tMy, tOther, tAnother, tPkg, tList, tTyping }

\* nop(foo, bar) under every header, with every signature over Types
ImportScenarios ==
    UNION { LET file == File(header, <<S_nop>>)
            IN  { Scenario(file, [DefaultOpts EXCEPT !.type_info =
                                      << Rec(<<"nop">>, Mod1, file.s[1].lineno, <<t1, t2>>, t3) >>]) :
                    t1 \in Types, t2 \in Types, t3 \in Types }
            : header \in Headers }

\* nop(foo, bar) and g(a) under every header: types that several sites share
SharedScenarios ==
    UNION { LET file == File(header, <<S_nop, S_g>>)
            IN  { Scenario(file, [DefaultOpts EXCEPT !.type_info =
                                      << Rec(<<"nop">>, Mod1, file.s[1].lineno, <<t1, t1>>, t2),
                                         Rec(<<"g">>, Mod1, file.s[2].lineno, <<t3>>, tInt) >>,
                                      !.annotation_style = style]) :
                    t1 \in Types, t2 \in {tInt, tList}, t3 \in Types, style \in Styles }
            : header \in Headers }

\* a one-line statement that is neither an import nor a string
Plain == [kind |-> "stmt", h |-> 1, sites |-> <<>>]

\* `if <test>:` over one import, indented or on the line of the `if`
IfSentinel(test, oneline) ==
    IF oneline
    THEN [kind |-> "tcline", test |-> test,
          body |-> << FromImport(<<"mod3">>, "AnotherClass") >>, stray |-> <<>>]
    ELSE [kind |-> "tcblock", test |-> test,
          body |-> << FromImport(<<"mod3">>, "AnotherClass") >>]

\* files whose imports are not one run at the top, and files that name the
\* sentinel with or without a block on it
PlacementHeaders ==
    { << PlainImport(<<"os">>, NoAlias), Plain, PlainImport(<<"pkg">>, NoAlias) >>,
      << Plain, [kind |-> "docstring"] >>,
      << [kind |-> "docstring"], Plain, PlainImport(<<"os">>, NoAlias) >>,
      << FromImport(<<"typing">>, "TYPE_CHECKING") >>,
      << FromImport(<<"typing">>, "TYPE_CHECKING"), IfSentinel(TypeChecking, TRUE) >>,
      << PlainImport(<<"typing">>, NoAlias), IfSentinel(TypingTypeChecking, FALSE) >>,
      << FromImport(<<"typing">>, "TYPE_CHECKING"), IfSentinel(TypeChecking, FALSE),
         PlainImport(<<"os">>, NoAlias) >> }

PlacementTypes == { tInt, tMy, tOther, tTyping, tList }

\* nop(foo, bar), alone and in front of g(a), under every placement header
PlacementScenarios ==
    UNION { LET file == File(header, <<S_nop, S_g>>)
                alone == File(header, <<S_nop>>)
            IN  { Scenario(file, [DefaultOpts EXCEPT !.type_info =
                                      << Rec(<<"nop">>, Mod1, file.s[1].lineno, <<t1, tInt>>, tInt),
                                         Rec(<<"g">>, Mod1, file.s[2].lineno, <<t2>>, tInt) >>]) :
                    t1 \in PlacementTypes, t2 \in PlacementTypes }
                \cup
                { Scenario(alone, [DefaultOpts EXCEPT !.type_info =
                                      << Rec(<<"nop">>, Mod1, alone.s[1].lineno, <<t1, t2>>, tInt) >>]) :
                    t1 \in PlacementTypes, t2 \in PlacementTypes }
            : header \in PlacementHeaders }

\* g(a) over a body of these statements
Body(stmts) == Stmt(1 + Len(stmts), << [Fn("g", A1) EXCEPT !.suite = stmts] >>)

\* bodies with and without a return value and a yield of their own
Bodies ==
    { << Pass >>, << ReturnBare >>, << ReturnExpr >>,
      << IfStmt(<< ReturnExpr >>), ReturnBare >>,
      << InnerDef(<< ReturnExpr >>), ReturnBare >>,
      << InnerClass(<< InnerDef(<< ReturnExpr >>) >>), Pass >>,
      << Decorated(InnerDef(<< ReturnExpr >>)), Pass >>,
      << YieldExpr >>, << YieldBare >>, << YieldExpr, ReturnExpr >>,
      << IfStmt(<< YieldExpr >>) >>,
      << InnerDef(<< YieldExpr >>), ReturnExpr >>,
      << InnerDef(<< YieldExpr >>), Pass >>,
      << InnerClass(<< InnerDef(<< YieldExpr >>) >>), ReturnBare >> }

ReturnTypes ==
    { tNone, tInt, Wrap("Optional", tInt), OptionalAny, Bare("Iterator"),
      Wrap("Iterator", tInt), Wrap("List", tInt) }

\* every body under every return type
ReturnScenarios ==
    UNION { LET file == File(<<>>, << Body(stmts) >>)
            IN  { Scenario(file, [DefaultOpts EXCEPT !.type_info =
                                      << Rec(<<"g">>, Mod1, file.s[1].lineno, <<tInt>>, ret) >>,
                                      !.annotation_style = style]) :
                    ret \in ReturnTypes, style \in Styles }
            : stmts \in Bodies }

\* type names of 23, 24, 30 and 60 characters
tLong23 == Bare("VeryLongNameOfATypeThat")
tLong24 == Bare("VeryLongNameOfATypeThatF")
tLong30 == Bare("VeryLongNameOfATypeThatFillsTh")
tLong60 == Bare("VeryLongNameOfATypeThatFillsTheLineOfTheCommentUpToItsWidthL")

CommentStyles == {"auto", "multi", "single"}

\* signatures around the two thresholds of use_py2_long_form
StyleCases ==
    { [stmt |-> S_six, args |-> IntSig(6), ret |-> tInt],
      [stmt |-> S_f, args |-> << tInt >>, ret |-> tInt],
      [stmt |-> S_f, args |-> << tInt >>, ret |-> tLong60],
      [stmt |-> S_nop, args |-> << tInt, tInt >>, ret |-> tInt],
      [stmt |-> S_nop, args |-> << tInt, tInt >>, ret |-> tLong60],
      [stmt |-> S_nop, args |-> << tLong30, tLong23 >>, ret |-> tInt],
      [stmt |-> S_nop, args |-> << tLong30, tLong24 >>, ret |-> tInt],
      [stmt |-> S_nop, args |-> << tLong30, tLong30 >>, ret |-> tInt],
      [stmt |-> S_cm, args |-> << tInt >>, ret |-> tInt],
      [stmt |-> S_bl, args |-> << tInt >>, ret |-> tInt],
      [stmt |-> S_cm, args |-> << tLong60 >>, ret |-> tInt],
      [stmt |-> S_sixc, args |-> IntSig(6), ret |-> tInt],
      [stmt |-> S_M, args |-> << tLong60 >>, ret |-> tInt],
      [stmt |-> S_M, args |-> << tMy, tLong60 >>, ret |-> tInt],
      [stmt |-> S_K, args |-> << tLong60 >>, ret |-> tInt],
      [stmt |-> S_K, args |-> << tMy, tLong60 >>, ret |-> tInt],
      [stmt |-> S_s, args |-> << tLong60 >>, ret |-> tInt],
      [stmt |-> S_w, args |-> << tLong60, tInt >>, ret |-> tInt],
      [stmt |-> S_va, args |-> << tLong60, Starred(tInt) >>, ret |-> tInt],
      [stmt |-> S_kw, args |-> << tLong60, DoubleStarred(tInt) >>, ret |-> tInt],
      [stmt |-> S_d, args |-> << tLong60, tInt >>, ret |-> tInt] }

\* every case under every --py2-comment-style
StyleScenarios ==
    UNION { LET file == File(<<>>, << c.stmt >>)
            IN  { Scenario(file, [DefaultOpts EXCEPT !.type_info =
                                      << Rec(get_funcname(file.s[1]), Mod1,
                                             file.s[1].lineno, c.args, c.ret) >>,
                                      !.comment_style = cs, !.annotation_style = style]) :
                    cs \in CommentStyles, style \in Styles }
            : c \in StyleCases }

Chains == { <<"json">>, <<"docs">>, <<"any">>, <<"json", "docs">>, <<"json", "any">>,
            <<"docs", "any">>, <<"json", "docs", "any">> }

\* the provider chains over documented and undocumented functions
ChainScenarios ==
    UNION { LET file == File(<<>>, stmts)
            IN  { Scenario(file, [DefaultOpts EXCEPT !.type_info = data,
                                      !.fixers = chain, !.annotation_style = style,
                                      !.counter = budget]) :
                    data \in { <<>>,
                               [i \in DOMAIN file.s |->
                                  Rec(get_funcname(file.s[i]), Mod1, file.s[i].lineno,
                                      IntSig(count_args(file.s[i]).count), tInt)] },
                    chain \in Chains, style \in Styles,
                    budget \in {NoCounter} \cup 0..MaxBudget }
            : stmts \in { <<S_h>>, <<S_h, S_g>>, <<S_f, S_h>>, <<S_c>>, <<S_o>>, <<S_t>>,
                          <<S_d>>, <<S_C>> } }

\* what the command may do
Ran(out) == [out |-> out, arg_types |-> << tInt >>, return_type |-> tInt]
CommandResults ==
    { Ran(out) : out \in Outcomes }
    \cup { [out |-> "signature", arg_types |-> << tInt, tInt >>, return_type |-> tInt],
           [out |-> "signature", arg_types |-> << << W(<<"T">>), Tick >> >>,
            return_type |-> TupleEmpty],
           [out |-> "signature", arg_types |-> << tMy >>, return_type |-> tOther] }

\* the command provider, alone and behind the trace data, under both Pythons
CommandScenarios ==
    UNION { LET file == File(<<>>, stmts)
            IN  { Scenario(file, [DefaultOpts EXCEPT !.type_info = data, !.fixers = chain,
                                      !.annotation_style = style, !.command = ran,
                                      !.python = py]) :
                    ran \in [DOMAIN file.s -> IF Len(file.s) = 1 THEN CommandResults
                                              ELSE { Ran(out) : out \in Outcomes }],
                    data \in { <<>>, << Rec(get_funcname(file.s[1]), Mod1,
                                            file.s[1].lineno, << tInt >>, tInt) >> },
                    chain \in { <<"command">>, <<"json", "command">> },
                    style \in Styles, py \in {2, 3} }
            : stmts \in { <<S_f>>, <<S_f, S_g>>, <<S_K>> } }

\* sites that are annotated already, in part or in whole, and one that is not
SkipScenarios ==
    UNION { LET file == File(<<>>, << st >>)
            IN  { Scenario(file, [DefaultOpts EXCEPT
                                      !.type_info = << Rec(get_funcname(file.s[1]), Mod1,
                                                           file.s[1].lineno,
                                                           IntSig(count_args(file.s[1]).count),
                                                           tInt) >>,
                                      !.fixers = chain, !.annotation_style = style,
                                      !.counter = budget]) :
                    chain \in { <<"json">>, <<"docs">>, <<"any">>, <<"json", "docs">> },
                    style \in Styles, budget \in {NoCounter, 1} }
            : st \in { S_l, S_pc, S_q, S_q1, S_qs, S_qk, S_qd, S_t, S_th, S_qh, S_h } }

\* types of the module of the file itself: mod1.py, and mod1.py in package pkg
tOwn == << W(<<"mod1", "Mine">>) >>
tOwnPkg == << W(<<"pkg", "mod1", "Mine">>) >>
PkgMod1 == [abs |-> FALSE, dir |-> <<"pkg">>, stem |-> "mod1", ext |-> ".py"]

OwnScenarios ==
    UNION { LET file == File(header, << S_nop >>)
            IN  { Scenario(file, [DefaultOpts EXCEPT
                                      !.type_info = << Rec(<<"nop">>, where.filename,
                                                           file.s[1].lineno, << t1, t2 >>, t3) >>,
                                      !.filename = where.filename,
                                      !.init_dirs = where.init_dirs,
                                      !.annotation_style = style]) :
                    where \in { [filename |-> Mod1, init_dirs |-> {}],
                                [filename |-> PkgMod1, init_dirs |-> { <<"pkg">> }] },
                    t1 \in { tOwn, tOwnPkg }, t2 \in { tMy, tInt },
                    t3 \in { Wrap("List", tOwn), tOwnPkg, tInt }, style \in Styles }
            : header \in { <<>>, << PlainImport(<<"mod1">>, NoAlias) >>,
                           << FromImport(<<"mod3">>, "AnotherClass") >> } }

\* one-line functions with types that need imports, under a budget
OneLineScenarios ==
    UNION { LET file == File(<<>>, stmts)
            IN  { Scenario(file, [DefaultOpts EXCEPT
                                      !.type_info =
                                          [i \in DOMAIN file.s |->
                                             Rec(get_funcname(file.s[i]), Mod1,
                                                 file.s[i].lineno, << t >>, tInt)],
                                      !.annotation_style = style, !.counter = budget]) :
                    t \in { tInt, tMy, tList }, style \in Styles,
                    budget \in {NoCounter, 1} }
            : stmts \in { <<S_o>>, <<S_c>>, <<S_o, S_g>> } }

Scenarios ==
    CommandScenarios \cup SkipScenarios \cup OwnScenarios \cup OneLineScenarios
    \cup LookupScenarios \cup NearestScenarios \cup ShiftScenarios \cup ImportScenarios
    \cup SharedScenarios \cup ChainScenarios \cup PlacementScenarios
    \cup ReturnScenarios \cup StyleScenarios

\* one process, one file
NoPool == [mode |-> "none", w |-> <<>>]

Init ==
    \E sc \in Scenarios :
        /\ root = sc.root
        /\ sites = sc.sites
        /\ opts = sc.opts
        /\ type_info = sc.opts.type_info
        /\ counter = sc.opts.counter
        /\ pending = NoPendingAll
        /\ run = 1
        /\ fx = 1
        /\ queue = MatchOrder(sc.sites)
        /\ source = [root |-> sc.root, sites |-> sc.sites]
        /\ pool = NoPool
        /\ last = [op |-> "init", fixer |-> "", run |-> 1, id |-> 0,
                   site |-> NoSite, root |-> sc.root, sites |-> sc.sites,
                   type_info |-> sc.opts.type_info, counter |-> sc.opts.counter,
                   lookups |-> <<>>, log |-> <<>>, arg_types |-> <<>>, ret_type |-> <<>>,
                   pend |-> NoPending]

Next == JsonTransform \/ CommandTransform \/ DocsTransform \/ AnyTransform \/ Rerun

Spec == Init /\ [][Next]_vars

(***************************************************************************)
(* Workers.  MultiprocessRefactoringTool hands files to N workers; every   *)
(* worker runs transform on the sites of its files.  BaseFixAnnotate       *)
(* .counter is a class attribute: one per process ("own"), one for all the *)
(* workers when they are threads of one process ("shared").  Between the   *)
(* test in should_skip and the `counter -= 1` of transform lie             *)
(* make_annotation and the annotation writer, and `-=` on an attribute is  *)
(* a load and a store.                                                     *)
(***************************************************************************)

Workers == 1..2

\* the counter worker w reads and writes
CounterOf(w) == IF pool.mode = "shared" THEN counter ELSE pool.w[w].counter

\* the site is done with: the next site of the worker's files
Pop(wk) == [wk EXCEPT !.pc = "check", !.queue = Tail(@)]

\* transform up to the annotation writer: should_skip, then the annotation
\* is made and written
WorkerCheck(w) ==
    /\ pool.w[w].pc = "check" /\ pool.w[w].queue # <<>>
    /\ pool' = [pool EXCEPT !.w[w] =
                   IF should_skip(Head(@.queue), CounterOf(w))
                   THEN [Pop(@) EXCEPT !.refused =
                            @ + (IF should_skip(Head(pool.w[w].queue), NoCounter)
                                 THEN 0 ELSE 1)]
                   ELSE [@ EXCEPT !.pc = "load", !.annotated = @ + 1]]
    /\ UNCHANGED << root, sites, type_info, counter, pending, opts, run, fx, queue,
                    source, last >>

\* `if BaseFixAnnotate.counter is not None:` and the load of `counter -= 1`
WorkerLoad(w) ==
    /\ pool.w[w].pc = "load"
    /\ pool' = [pool EXCEPT !.w[w] =
                   IF CounterOf(w) = NoCounter THEN Pop(@)
                   ELSE [@ EXCEPT !.pc = "store", !.reg = CounterOf(w)]]
    /\ UNCHANGED << root, sites, type_info, counter, pending, opts, run, fx, queue,
                    source, last >>

\* the store of `counter -= 1`
WorkerStore(w) ==
    /\ pool.w[w].pc = "store"
    /\ pool' = [pool EXCEPT !.w[w] =
                   IF pool.mode = "shared" THEN Pop(@)
                   ELSE [Pop(@) EXCEPT !.counter = pool.w[w].reg - 1]]
    /\ counter' = IF pool.mode = "shared" THEN pool.w[w].reg - 1 ELSE counter
    /\ UNCHANGED << root, sites, type_info, pending, opts, run, fx, queue, source, last >>

\* the sites of the files a worker is given
PoolFiles ==
    { File(<<>>, << S_f >>).s, File(<<>>, << S_f, S_g >>).s, File(<<>>, << S_t, S_f >>).s,
      File(<<>>, << S_f, S_g, S_nop >>).s }

Worker(sites_, n) ==
    [pc |-> "check", queue |-> sites_, reg |-> 0, counter |-> n, annotated |-> 0,
     refused |-> 0]

ParallelInit ==
    \E mode \in {"shared", "own"}, n \in {NoCounter} \cup 0..MaxBudget,
       f \in [Workers -> PoolFiles] :
        /\ pool = [mode |-> mode, w |-> [w \in Workers |-> Worker(f[w], n)]]
        /\ counter = n
        /\ opts = [DefaultOpts EXCEPT !.counter = n]
        /\ root = <<>>
        /\ sites = <<>>
        /\ type_info = <<>>
        /\ pending = NoPendingAll
        /\ run = 1
        /\ fx = 1
        /\ queue = <<>>
        /\ source = [root |-> <<>>, sites |-> <<>>]
        /\ last = [op |-> "init", fixer |-> "", run |-> 1, id |-> 0,
                   site |-> NoSite, root |-> <<>>, sites |-> <<>>,
                   type_info |-> <<>>, counter |-> n,
                   lookups |-> <<>>, log |-> <<>>, arg_types |-> <<>>, ret_type |-> <<>>,
                   pend |-> NoPending]

ParallelNext == \E w \in Workers : WorkerCheck(w) \/ WorkerLoad(w) \/ WorkerStore(w)

ParallelSpec == ParallelInit /\ [][ParallelNext]_vars

(***************************************************************************)
(* Properties                                                              *)
(***************************************************************************)

\* the last call of transform was the trace-data fixer's and reached make_annotation
JsonTried == last.fixer = "json" /\ last.op \in {"none", "annot", "noinsert"}
JsonDone == last.fixer = "json" /\ last.op \in {"annot", "noinsert"}

\* nothing of the file was touched by the last call
FileUntouched == root = last.root /\ sites = last.sites

\* the records a lookup by funcname has to choose from, and the distance
\* of the nearest of them from the site
Candidates(funcname) ==
    { i \in 1..Len(last.type_info) :
        /\ last.type_info[i].func_name = funcname
        /\ last.type_info[i].path = opts.filename }
Distance(i) == Abs(last.type_info[i].line - last.site.lineno)
MinDistance(funcname) ==
    CHOOSE d \in { Distance(i) : i \in Candidates(funcname) } :
        \A i \in Candidates(funcname) : d <= Distance(i)

Declared(site) ==
    Cardinality({ i \in 1..Len(site.args) :
                    /\ site.args[i].t \in {"NAME", "TNAME"}
                    /\ (i = 1 \/ site.args[i - 1].t # "EQUAL") })

LeadingSelf(site) ==
    site.args # <<>> /\ site.args[1].t = "NAME" /\ site.args[1].v \in {"self", "cls"}

InClass(site) == site.scope # <<>> /\ site.scope[Len(site.scope)].k = "class"

\* C2 as stated: whenever reconciliation gives a result, it has as many
\* argument types as the site declares parameters, self or cls included.
C2_EntriesEqualDeclared ==
    JsonDone => Len(last.arg_types) = Declared(last.site)

\* C2: whenever reconciliation gives a result, it has as many argument
\* types as the site declares parameters, except for a method with a
\* leading self or cls whose signature left the receiver out: there it has
\* one fewer, the receiver staying without a type.
C2_EntriesMatchParameters ==
    JsonDone =>
        LET rec == last.type_info[last.lookups[Len(last.lookups)].it]
            short == /\ InClass(last.site) /\ LeadingSelf(last.site)
                     /\ Len(type_info[last.lookups[Len(last.lookups)].it].arg_types)
                          = Declared(last.site) - 1
        IN  /\ Len(last.arg_types) = Declared(last.site) - (IF short THEN 1 ELSE 0)
            /\ Len(last.arg_types) >= Len(rec.arg_types)

\* a method was annotated from a signature that left out its receiver
C2_Witness ==
    /\ JsonDone /\ last.op = "annot"
    /\ InClass(last.site) /\ LeadingSelf(last.site)
    /\ Len(last.arg_types) = Declared(last.site) - 1

\* C3: when the adjusted signature has another number of entries than the
\* site has parameters, the call logs both numbers, registers no import
\* and leaves the file as it was.
C3_ArityMismatchSkips ==
    (JsonTried /\ last.lookups[Len(last.lookups)].res = "arity") =>
        LET it == last.lookups[Len(last.lookups)].it
        IN  /\ last.op = "none"
            /\ \E e \in Range(last.log) :
                 /\ e.kind = "arity" /\ e.site = last.id
                 /\ e.a = Declared(last.site)
                 /\ e.b = Len(type_info[it].arg_types)
                 /\ e.a # e.b
            /\ last.pend = NoPending
            /\ pending = NoPendingAll
            /\ FileUntouched

\* a signature with types that would need imports was refused for its length
C3_Witness ==
    /\ JsonTried /\ last.op = "none"
    /\ last.lookups[Len(last.lookups)].res = "arity"
    /\ \E t \in Range(last.type_info[last.lookups[Len(last.lookups)].it].arg_types) : t = tMy

\* C4: in a run on the tool's own output, with the options and the trace
\* data of the first run and no limit on the number of annotations, no
\* call of transform changes the file.
C4_SecondRunChangesNothing ==
    (run >= 2 /\ last.op # "rerun" /\ opts.counter = NoCounter) => FileUntouched

\* C5: a site that carries an annotation written by an earlier fixer of the
\* chain keeps that annotation, whichever fixer sees it next.
C5_AnnotatedAtMostOnce ==
    (last.op \notin {"init", "rerun"} /\ last.site.annot.style # "none")
        => sites[last.id].annot = last.site.annot

\* the import statements of the file, with where they stand: <<i, 0>> is
\* child i of the root, <<i, j>> statement j of the block that is child i
ImportPlaces(r, stmt) ==
    { <<i, 0>> : i \in { k \in 1..Len(r) : r[k] = stmt } }
    \cup UNION { { <<i, j>> : j \in { m \in 1..Len(r[i].body) : r[i].body[m] = stmt } }
                 : i \in { k \in 1..Len(r) : r[k].kind = "tcblock" } }

TopLevelImport(r, mod, name) == \E pl \in ImportPlaces(r, FromImport(mod, name)) : pl[2] = 0
BlockImport(r, mod, name) == \E pl \in ImportPlaces(r, FromImport(mod, name)) : pl[2] > 0

ImportsOf(r) ==
    { r[i] : i \in { k \in 1..Len(r) : r[k].kind = "import" } }
    \cup UNION { Range(r[i].body) : i \in { k \in 1..Len(r) : r[k].kind = "tcblock" } }

\* C6: for no (module, entry) does the file hold more than one import
\* statement that the run put there, at top level or inside the block.
C6_ImportDedup ==
    \A stmt \in ImportsOf(root) :
        Cardinality(ImportPlaces(root, stmt)) - Cardinality(ImportPlaces(source.root, stmt)) <= 1

\* the local names under which the top-level import statements of r bind
\* mod.name: from mod import name [as alias], import mod.name [as alias],
\* import mod [as alias]
Bindings(r, mod, name) ==
    UNION { UNION { LET st == r[i]
                        n == st.names[e]
                    IN  IF st.form = "from"
                        THEN (IF st.package = mod /\ n.name = <<name>>
                              THEN { IF n.alias = NoAlias THEN <<name>> ELSE n.alias } ELSE {})
                        ELSE (IF n.name = mod \o <<name>>
                              THEN { IF n.alias = NoAlias THEN n.name ELSE n.alias } ELSE {})
                             \cup (IF n.name = mod
                                   THEN { (IF n.alias = NoAlias THEN n.name ELSE n.alias)
                                          \o <<name>> }
                                   ELSE {})
                    : e \in 1..Len(r[i].names) }
            : i \in { k \in 1..Len(r) : r[k].kind = "import" } }

\* the type strings the last call resolved, as the record gave them, next
\* to the texts it made of them
ResolvedPairs ==
    LET rec == type_info[last.lookups[Len(last.lookups)].it]
    IN  { [in |-> rec.arg_types[i], out |-> last.arg_types[i]] : i \in 1..Len(last.arg_types) }
        \cup (IF Len(rec.return_type) = Len(last.ret_type)
              THEN { [in |-> rec.return_type, out |-> last.ret_type] } ELSE {})

DottedWord(tok) == tok.k = "w" /\ tok.colon = 0 /\ Len(tok.parts) >= 2

\* C7: a dotted type name that the file's import statements already bind
\* is written as that binding, and nothing is registered for it in either
\* pending set.
C7_BindingReuse ==
    JsonDone =>
        \A pr \in ResolvedPairs : \A j \in 1..Len(pr.in) :
            LET w == pr.in[j]
                mod == Front(w.parts)
                name == Last(w.parts)
            IN  (DottedWord(w) /\ Bindings(last.root, mod, name) # {}) =>
                    /\ pr.out[j].k = "w"
                    /\ pr.out[j].parts \in Bindings(last.root, mod, name)
                    /\ [mod |-> mod, name |-> <<name>>] \notin
                         last.pend.needed_imports \cup last.pend.needed_type_checking_imports

\* a type was written through the alias of a module import
C7_Witness ==
    /\ JsonDone
    /\ \E pr \in ResolvedPairs : \E j \in 1..Len(pr.in) :
         /\ pr.in[j] = W(<<"mod2", "MyClass">>)
         /\ pr.out[j] = W(<<"m2", "MyClass">>)
    /\ last.pend = NoPending

\* nop(foo, bar) of mod1.py, its signature (mod2.MyClass, mod3.OtherClass)
\* -> mod3.AnotherClass, in a file that starts `from mod3 import AnotherClass`
ScenarioC ==
    /\ run = 1 /\ JsonDone /\ last.site.name = "nop"
    /\ opts.filename = Mod1
    /\ source.root = File(<< FromImport(<<"mod3">>, "AnotherClass") >>, <<S_nop>>).r
    /\ Len(opts.type_info) = 1
    /\ opts.type_info[1].arg_types = << tMy, tOther >>
    /\ opts.type_info[1].return_type = tAnother

\* C8 as stated: in scenario C OtherClass is imported inside the block,
\* MyClass at top level, and AnotherClass is used as it is bound.
C8_ScenarioC_AsStated ==
    ScenarioC =>
        /\ BlockImport(root, <<"mod3">>, "OtherClass")
        /\ TopLevelImport(root, <<"mod2">>, "MyClass")
        /\ last.ret_type = Bare("AnotherClass")
        /\ Cardinality(ImportPlaces(root, FromImport(<<"mod3">>, "AnotherClass"))) = 1

\* C8: in scenario C OtherClass is imported at top level, mod3 being the
\* source of the file's import, MyClass is imported inside the
\* TYPE_CHECKING block, and AnotherClass is used as it is bound, with no
\* further import.
C8_ScenarioC ==
    ScenarioC =>
        /\ TopLevelImport(root, <<"mod3">>, "OtherClass")
        /\ ~BlockImport(root, <<"mod3">>, "OtherClass")
        /\ BlockImport(root, <<"mod2">>, "MyClass")
        /\ ~TopLevelImport(root, <<"mod2">>, "MyClass")
        /\ last.arg_types = << Bare("MyClass"), Bare("OtherClass") >>
        /\ last.ret_type = Bare("AnotherClass")
        /\ Cardinality(ImportPlaces(root, FromImport(<<"mod3">>, "AnotherClass"))) = 1

\* scenario C was run and the comment written
C8_Witness == ScenarioC /\ last.op = "annot" /\ sites[last.id].annot.style = "py2"

\* the modules the file imports from at top level
TopLevelSources(r) ==
    { r[i].package : i \in { k \in 1..Len(r) : r[k].kind = "import" /\ r[k].form = "from" } }

Registered == last.pend.needed_imports \cup last.pend.needed_type_checking_imports

\* C9: an import registered for a module other than a safe one goes to the
\* top level iff the file has a top-level import from that module, and to
\* the TYPE_CHECKING block otherwise.
C9_DeferralRule ==
    JsonDone =>
        \A p \in Registered :
            p.mod \notin safe_imports =>
                /\ (p \in last.pend.needed_imports) = (p.mod \in TopLevelSources(last.root))
                /\ (p \in last.pend.needed_type_checking_imports)
                     = (p.mod \notin TopLevelSources(last.root))

\* C10 as stated: an import from a module without a package qualifier is
\* never registered for the TYPE_CHECKING block.
C10_UnqualifiedTopLevel ==
    JsonDone => \A p \in last.pend.needed_type_checking_imports : Len(p.mod) > 1

\* C10: an import from a module of safe_imports (typing) is registered for
\* the top level and written there, never inside the TYPE_CHECKING block,
\* whether the type was written bare or qualified.
C10_SafeModulesTopLevel ==
    (last.fixer \in SigFixers /\ last.op \in {"annot", "noinsert"}) =>
        /\ \A p \in last.pend.needed_type_checking_imports : p.mod \notin safe_imports
        /\ \A p \in last.pend.needed_imports :
             p.mod \in safe_imports => TopLevelImport(root, p.mod, p.name[1])
        /\ \A i \in 1..Len(root) :
             root[i].kind = "tcblock" =>
                 \A j \in 1..Len(root[i].body) : root[i].body[j].package \notin safe_imports

\* a type written typing.Optional had its import put at top level, next to
\* an import that went to the block
C10_Witness ==
    /\ JsonDone
    /\ [mod |-> <<"typing">>, name |-> <<"Optional">>] \in last.pend.needed_imports
    /\ \E pr \in ResolvedPairs : \E j \in 1..Len(pr.in) : pr.in[j] = W(<<"typing", "Optional">>)
    /\ last.pend.needed_type_checking_imports # {}
    /\ TopLevelImport(root, <<"typing">>, "Optional")

\* the last call of transform was a signature fixer's and wrote its imports
SigDone == last.fixer \in SigFixers /\ last.op \in {"annot", "noinsert"}

\* the if-statements on the sentinel among the children of r
SentinelIfs(r) ==
    { i \in 1..Len(r) : r[i].kind \in {"tcblock", "tcline"}
                        /\ r[i].test \in {TypeChecking, TypingTypeChecking} }

\* the top-level statements of r that import the sentinel from typing
SentinelImports(r) ==
    { i \in 1..Len(r) : r[i].kind = "import" /\ r[i].form = "from"
                        /\ r[i].package = <<"typing">>
                        /\ \E j \in 1..Len(r[i].names) : r[i].names[j].name = TypeChecking }

First(S) == CHOOSE i \in S : \A j \in S : i <= j

\* the import statements for the deferred requirements of the last call
DeferredNodes ==
    LET pairs == SortedPairs(last.pend.needed_type_checking_imports)
    IN  [i \in 1..Len(pairs) |-> FromImport(pairs[i].mod, pairs[i].name[1])]

\* C11: when the file already has an `if TYPE_CHECKING:` or
\* `if typing.TYPE_CHECKING:` block, a deferred import is appended as the
\* last statement of that block: the file still parses, no second block and
\* no sentinel import is added, and when nothing goes to the top level every
\* other statement of the file is what it was.
C11_AppendsToExistingBlock ==
    (SigDone /\ last.pend.needed_type_checking_imports # {} /\ SentinelIfs(last.root) # {}) =>
        LET was == First(SentinelIfs(last.root))
            now == First(SentinelIfs(root))
        IN  /\ Cardinality(SentinelIfs(root)) = Cardinality(SentinelIfs(last.root))
            /\ Cardinality(SentinelImports(root)) = Cardinality(SentinelImports(last.root))
            /\ root[now].body = last.root[was].body \o DeferredNodes
            /\ Parses(root)
            /\ last.pend.needed_imports = {} =>
                 /\ Len(root) = Len(last.root)
                 /\ \A i \in 1..Len(root) : i # was => root[i] = last.root[i]

\* the last call of transform wrote an annotation and its imports
Wrote == last.op \in {"annot", "noinsert"}

ImportsAt(r) == { i \in 1..Len(r) : r[i].kind = "import" }
StringsAt(r) == { i \in 1..Len(r) : r[i].kind = "docstring" }
Largest(S) == CHOOSE i \in S : \A j \in S : j <= i

\* the last statement of the run of import statements that starts at the
\* first import statement of r
EndOfFirstRun(r) ==
    Largest({ e \in ImportsAt(r) : \A i \in First(ImportsAt(r))..e : i \in ImportsAt(r) })

\* the children the last call added to the root stand together right
\* behind child p of the tree it found; around them nothing moved (a block
\* on the sentinel may have grown)
InsertedBelow(p) ==
    LET n == Len(root) - Len(last.root)
    IN  /\ \A i \in 1..p : root[i] = last.root[i]
        /\ \A i \in (p + 1)..Len(last.root) :
             \/ root[i + n] = last.root[i]
             \/ i \in SentinelIfs(last.root) /\ root[i + n].kind = last.root[i].kind

C13_OneSentinelOneBlock ==
    (Cardinality(SentinelImports(source.root)) <= 1 /\ Cardinality(SentinelIfs(source.root)) <= 1)
        => /\ Cardinality(SentinelImports(root)) <= 1
           /\ Cardinality(SentinelIfs(root)) <= 1

\* the (module, entry) an inserted import statement stands for
PairOf(stmt) ==
    [mod |-> IF stmt.form = "from" THEN stmt.package ELSE <<>>, name |-> stmt.names[1].name]

\* the statements are one import per pair of the set, in ascending order
WrittenSorted(stmts, pairs) ==
    /\ Len(stmts) = Cardinality(pairs)
    /\ { PairOf(stmts[i]) : i \in 1..Len(stmts) } = pairs
    /\ \A i \in 1..Len(stmts) : \A j \in (i + 1)..Len(stmts) :
         PairLess(PairOf(stmts[i]), PairOf(stmts[j]))

\* the last k elements of a sequence
Ending(s, k) == SubSeq(s, Len(s) - k + 1, Len(s))

\* C14: patch_imports writes the pending requirements in sorted
\* (module, entry) order, whatever the order of the requests: the top-level
\* ones stand in that order below the imports, the deferred ones in that
\* order at the end of the block.  After the flush both pending sets are
\* empty, and a flush without a request leaves the file as it is.
C14_SortedFlush ==
    SigDone =>
        LET top == last.pend.needed_imports
            deferred == last.pend.needed_type_checking_imports
            p == get_bottom_of_imports(last.root)
        IN  /\ pending[last.fixer] = NoPending
            /\ WrittenSorted(SubSeq(root, p + 1, p + Cardinality(top)), top)
            /\ deferred # {} =>
                 WrittenSorted(Ending(SuiteImports(root[First(SentinelIfs(root))]),
                                      Cardinality(deferred)), deferred)
            /\ (top = {} /\ deferred = {}) => root = last.root

\* two deferred and two top-level imports were written by one flush, the
\* deferred ones requested in descending order
C14_Witness ==
    /\ SigDone
    /\ last.pend.needed_type_checking_imports =
         { [mod |-> <<"mod2">>, name |-> <<"MyClass">>],
           [mod |-> <<"mod3">>, name |-> <<"OtherClass">>] }
    /\ last.type_info # <<>>
    /\ last.type_info[1].arg_types = << tOther, tList >>
    /\ Cardinality(last.pend.needed_imports) = 2
    /\ pending[last.fixer] = NoPending

\* a flush without a request came after one that wrote imports
C14_WitnessSecondFlush ==
    /\ SigDone /\ last.pend = NoPending
    /\ root = last.root /\ Len(root) > Len(source.root)

\* the site declares *args: a star with a name right behind it
DeclaresStar(site) ==
    \E i \in 1..(Len(site.args) - 1) : site.args[i].t = "STAR" /\ site.args[i + 1].t = "NAME"

\* the site declares **kwargs
DeclaresStarStar(site) == \E i \in 1..Len(site.args) : site.args[i].t = "DOUBLESTAR"

\* the signature has an entry that starts with '**' / with one '*' only
GivesStarStar(sig) ==
    \E i \in 1..Len(sig) : Len(sig[i]) >= 2 /\ sig[i][1] = P("*") /\ sig[i][2] = P("*")
GivesStar(sig) ==
    \E i \in 1..Len(sig) : /\ sig[i] # <<>> /\ sig[i][1] = P("*")
                           /\ ~(Len(sig[i]) >= 2 /\ sig[i][2] = P("*"))

\* the variadic entries the rule adds to a signature for a site
VariadicFill(site, sig) ==
    (IF DeclaresStar(site) /\ ~GivesStar(sig) THEN << StarAny >> ELSE <<>>)
    \o (IF DeclaresStarStar(site) /\ ~GivesStarStar(sig) THEN << StarStarAny >> ELSE <<>>)

\* the one record process_types worked on in the last call
OneLookup == JsonTried /\ Len(last.lookups) = 1 /\ last.lookups[1].res \in {"sig", "arity"}
Given == last.type_info[last.lookups[1].it].arg_types
Adjusted == type_info[last.lookups[1].it].arg_types

\* C15: process_types appends '*Any' to the signature exactly when the
\* site declares *args and no entry starts with a single '*', and '**Any'
\* exactly when it declares **kwargs and no entry starts with '**'; a bare
\* `*` marker counts for nothing and adds nothing.  (In front, the receiver
\* rule may put one 'Any'.)
C15_VariadicFill ==
    OneLookup =>
        \/ Adjusted = Given \o VariadicFill(last.site, Given)
        \/ Adjusted = << AnyType >> \o Given \o VariadicFill(last.site, Given)

\* f(a, *args, **kwargs) with a signature that has a '**' entry and no '*'
\* entry: '*Any' alone was appended
C15_Witness ==
    /\ OneLookup /\ last.op = "annot"
    /\ DeclaresStar(last.site) /\ DeclaresStarStar(last.site)
    /\ Given = << tInt, DoubleStarred(tInt) >>
    /\ Adjusted = << tInt, DoubleStarred(tInt), StarAny >>

\* f(a, *, b) was annotated from a signature of two entries, nothing added
C15_WitnessBareStar ==
    /\ OneLookup /\ last.op = "annot"
    /\ \E i \in 1..(Len(last.site.args) - 1) :
         last.site.args[i].t = "STAR" /\ last.site.args[i + 1].t = "COMMA"
    /\ Adjusted = Given /\ Len(Given) = 2

\* C16: with a first parameter named self or cls and a signature (variadic
\* entries filled in) exactly one entry shorter than the parameter count, a
\* free function gets 'Any' put at position 0, while a method, a def
\* directly inside a class, keeps its signature and is annotated with it,
\* the receiver without a type; in every other case the signature stays
\* as it is and is accepted only when it has one entry per parameter.
C16_ReceiverRule ==
    OneLookup =>
        LET filled == Given \o VariadicFill(last.site, Given)
            accepted == last.lookups[1].res = "sig"
        IN  IF LeadingSelf(last.site) /\ Len(filled) = Declared(last.site) - 1
            THEN IF InClass(last.site)
                 THEN /\ Adjusted = filled /\ accepted
                      /\ Len(last.arg_types) = Declared(last.site) - 1
                      /\ last.op = "annot" => Len(sites[last.id].annot.args) = Declared(last.site) - 1
                 ELSE /\ Adjusted = << AnyType >> \o filled /\ accepted
                      /\ Len(last.arg_types) = Declared(last.site)
            ELSE /\ Adjusted = filled
                 /\ accepted = (Len(filled) = Declared(last.site))

\* a function outside any class with a leading self got 'Any' in front of
\* the one type its signature has
C16_Witness ==
    /\ OneLookup /\ last.op = "annot"
    /\ LeadingSelf(last.site) /\ ~InClass(last.site)
    /\ Given = << tInt >>
    /\ Adjusted = << AnyType, tInt >>
    /\ Len(sites[last.id].annot.args) = 2

\* a method was annotated from a signature without its receiver
C16_WitnessMethod ==
    /\ OneLookup /\ last.op = "annot"
    /\ LeadingSelf(last.site) /\ InClass(last.site)
    /\ Given = << tInt >> /\ Adjusted = Given
    /\ Len(sites[last.id].annot.args) = 1

RECURSIVE Own(_, _)
\* a node of type t stands in the body below this node, outside every
\* nested function and class
Own(node, t) ==
    \E i \in 1..Len(node.kids) :
        \/ node.kids[i].t = t
        \/ node.kids[i].t \notin {"funcdef", "classdef"} /\ Own(node.kids[i], t)

\* the function's own body has a `return` with a value / a yield with a value
OwnReturnExpr(site) == Own(Node("suite", site.suite), "return_stmt")
OwnYieldExpr(site) == Own(Node("suite", site.suite), "yield_expr")

\* the return type of the record the last call annotated from
GivenReturn == last.type_info[last.lookups[Len(last.lookups)].it].return_type

\* the text of a type that needs no import beyond typing's stays as it is
PlainType(t) == \A i \in 1..Len(t) : Len(t[i].parts) = 1

\* C17: a return type of 'None' is replaced by 'Optional[Any]' exactly when
\* the function's own body, nested functions and classes left out, has a
\* `return` with a value; no other return type is replaced.  (Stated for
\* functions that are no generators.)
C17_NoneWidening ==
    (JsonDone /\ ~OwnYieldExpr(last.site) /\ PlainType(GivenReturn)) =>
        last.ret_type = IF GivenReturn = tNone /\ OwnReturnExpr(last.site)
                        THEN OptionalAny ELSE GivenReturn

\* a function that returns a value only inside a nested function kept its
\* 'None'
C17_Witness ==
    /\ JsonDone /\ last.op = "annot" /\ GivenReturn = tNone
    /\ ~OwnReturnExpr(last.site)
    /\ has_return_exprs_eager(FuncDef(last.site))
    /\ sites[last.id].annot.ret = tNone

\* a function that returns a value under an `if` had its 'None' widened
C17_WitnessWidened ==
    /\ JsonDone /\ last.op = "annot" /\ GivenReturn = tNone
    /\ last.site.suite = << IfStmt(<< ReturnExpr >>), ReturnBare >>
    /\ sites[last.id].annot.ret = OptionalAny
    /\ [mod |-> <<"typing">>, name |-> <<"Optional">>] \in last.pend.needed_imports

\* the function's own body has a yield, with or without a value
OwnYield(site) == Own(Node("suite", site.suite), "yield")

\* the type is outer[...]; what stands between the brackets
IsWrap(t, outer) == Len(t) >= 3 /\ t[1] = W(<<outer>>) /\ t[2] = P("[")
Inner(t) == SubSeq(t, 3, Len(t) - 1)

\* the return type the generator rule makes of a declared one
AsIterator(t) ==
    IF t = Bare("Iterator") \/ IsWrap(t, "Iterator") THEN t
    ELSE IF IsWrap(t, "Optional") THEN Wrap("Iterator", Inner(t))
    ELSE Wrap("Iterator", t)

\* the 'None' widening of C17
Widened(site, t) == IF t = tNone /\ OwnReturnExpr(site) THEN OptionalAny ELSE t

\* C18: a function whose own body has a yield is a generator: 'Iterator' and
\* 'Iterator[...]' stay, 'Optional[T]' becomes 'Iterator[T]', any other T
\* becomes 'Iterator[T]', a 'None' over a return with a value being widened
\* first; a function that yields only inside a nested function or class is
\* no generator.
C18_GeneratorRule ==
    (JsonDone /\ PlainType(GivenReturn)) =>
        last.ret_type = IF OwnYield(last.site)
                        THEN AsIterator(Widened(last.site, GivenReturn))
                        ELSE Widened(last.site, GivenReturn)

\* the site carries @classmethod or @staticmethod, written plainly
PlainlyDecorated(site) ==
    \E i \in 1..Len(site.decs) :
        site.decs[i].name \in { <<"classmethod">>, <<"staticmethod">> } /\ site.decs[i].arg = <<>>

\* C19: in one call the lookup is made by the qualified name and retried
\* by the bare name at most once; the retry happens only when the first
\* lookup gave no annotation and the site carries a plain classmethod or
\* staticmethod decorator.  An ordinary method or an undecorated function
\* is looked up once, by its qualified name.
C19_RetryOnlyPlainDecorators ==
    JsonTried =>
        /\ Len(last.lookups) \in {1, 2}
        /\ last.lookups[1].funcname = get_funcname(last.site)
        /\ Len(last.lookups) = 2 =>
             /\ last.lookups[1].res # "sig"
             /\ last.lookups[2].funcname = << last.site.name >>
             /\ PlainlyDecorated(last.site)

\* len() of the one-line summary '(args) -> ret' and of the degenerate
\* summary '(...) -> ret' of the annotation the last call wrote
SummaryLen == 1 + JoinedLen(last.arg_types) + 5 + TypeLen(last.ret_type)
DegenerateLen == 9 + TypeLen(last.ret_type)

\* the last call wrote a type comment
WroteComment == Wrote /\ last.op = "annot" /\ opts.annotation_style = "py2"

\* C20: with comment_style 'single' the one-line summary is always written;
\* with 'multi' the per-parameter form with the degenerate summary is always
\* written; with 'auto' the per-parameter form is written exactly when the
\* summary is longer than 64 characters or there are more than 5 argument
\* types, and the summary is longer than the degenerate one.
C20_CommentStyle ==
    WroteComment =>
        sites[last.id].annot.long =
            CASE opts.comment_style = "single" -> FALSE
              [] opts.comment_style = "multi" -> TRUE
              [] OTHER -> /\ (SummaryLen > 64 \/ Len(last.arg_types) > 5)
                          /\ SummaryLen > DegenerateLen

(***************************************************************************)
(* C21: one-line functions                                                 *)
(***************************************************************************)

\* transform came to the comment writer with a body that is no block
OneLineWrite ==
    /\ last.op \in {"annot", "noinsert"}
    /\ opts.annotation_style = "py2"
    /\ last.site.body.shape # "block"

\* C21: in comment style a one-line body is first made a block and the type
\* comment is then the first line of that block; a one-line body that cannot
\* be made a block leaves the site as it was and logs 'cannot insert
\* annotation for one-line function'.
C21_OneLiner ==
    OneLineWrite =>
        IF last.site.body.shape = "compact"
        THEN /\ last.op = "annot"
             /\ sites[last.id].body.shape = "block"
             /\ sites[last.id].body.typed
             /\ sites[last.id].body.prefix = << AnnotLine >>
             /\ sites[last.id].annot.style = "py2"
             /\ \A i \in 1..Len(last.log) : last.log[i].kind # "oneline"
        ELSE /\ last.op = "noinsert"
             /\ sites[last.id] = last.site
             /\ \E i \in 1..Len(last.log) :
                   last.log[i].kind = "oneline" /\ last.log[i].site = last.id

\* a one-line body was made a block and has its comment
C21_Witness ==
    /\ OneLineWrite /\ last.site.body.shape = "compact"
    /\ sites[last.id].body.prefix = << AnnotLine >>
    /\ sites[last.id].added = 2

\* a one-line body that could not be made a block was logged
C21_WitnessContinued ==
    /\ OneLineWrite /\ last.site.body.shape = "continued"
    /\ sites[last.id] = last.site /\ last.log # <<>>

(***************************************************************************)
(* C22: the failures of the external command                               *)
(***************************************************************************)

\* the command provider looked the site up: what the command did for it
CommandTried ==
    /\ last.fixer = "command"
    /\ last.op \in {"annot", "noinsert", "none", "raise"}

RanFor == opts.command[last.id]

\* C22: exit status 2 gives no match and no log entry; every other failure
\* of the command (another non-zero status, an error starting it, output
\* that is no signature record) is logged and gives no match for that one
\* site; the run goes on with the next site (no exception leaves transform).
C22_CommandFailures ==
    CommandTried =>
        /\ RanFor.out = "exit2" => (last.op = "none" /\ last.log = <<>>)
        /\ RanFor.out \in {"exit", "oserror", "garbage"} =>
              /\ last.op = "none"
              /\ \E i \in 1..Len(last.log) :
                    last.log[i].kind = "command" /\ last.log[i].site = last.id
              /\ sites = last.sites /\ root = last.root

(***************************************************************************)
(* C23: the budget                                                         *)
(***************************************************************************)

BudgetSet == opts.counter # NoCounter

\* transform was called on a site the pattern matches
Called == last.op \in {"skip", "none", "annot", "noinsert", "raise"}

\* C23: with a budget N set, a site visited once the counter is 0 is
\* skipped, the counter goes down by exactly one at each annotation written
\* and by nothing otherwise, and it is never negative; with no budget set
\* no site is skipped for the budget.
C23_Budget ==
    /\ BudgetSet => counter >= 0
    /\ (BudgetSet /\ Called /\ last.counter <= 0) => last.op = "skip"
    /\ (BudgetSet /\ Called) => counter = last.counter - (IF last.op = "annot" THEN 1 ELSE 0)
    /\ (~BudgetSet /\ Called) =>
          /\ counter = NoCounter
          /\ last.op = "skip" => last.fixer # "docs" /\ should_skip(last.site, NoCounter)

(***************************************************************************)
(* C24: sites that are annotated already                                   *)
(***************************************************************************)

\* a `# type:` comment on a leaf of the parameter list or at the start of
\* the body, or a parameter with an inline annotation
HasTypeComment(site) == site.parcomment \/ site.body.typed
HasInline(site) == \E i \in 1..Len(site.args) : site.args[i].t = "TNAME"
Marked(site) == HasTypeComment(site) \/ HasInline(site)

\* C24: a site with a `# type:` comment on the parameter list or at the
\* start of its body, or with an inline annotation on any parameter, is
\* skipped and left as it is; a site with none of these, and budget left,
\* is not skipped.
C24_SkipAnnotated ==
    Called =>
        /\ Marked(last.site) =>
              (last.op = "skip" /\ sites = last.sites /\ root = last.root)
        /\ (~Marked(last.site) /\ (last.counter = NoCounter \/ last.counter > 0)) =>
              last.op # "skip"

\* the same, of the fixers that keep the should_skip of the base class
C24_SkipAnnotatedBase ==
    (Called /\ last.fixer # "docs" /\ Marked(last.site)) =>
        (last.op = "skip" /\ sites = last.sites /\ root = last.root)

(***************************************************************************)
(* C25: the budget under parallel workers (ParallelSpec)                   *)
(***************************************************************************)

RECURSIVE SumAnnotated(_)
SumAnnotated(ws) == IF ws = {} THEN 0
                    ELSE LET w == CHOOSE x \in ws : TRUE
                         IN  pool.w[w].annotated + SumAnnotated(ws \ {w})

\* more sites annotated than the budget a counter stands for, or a counter
\* below 0
Overshoot ==
    /\ BudgetSet
    /\ IF pool.mode = "shared"
       THEN counter < 0 \/ SumAnnotated(Workers) > opts.counter
       ELSE \E w \in Workers :
               pool.w[w].counter < 0 \/ pool.w[w].annotated > opts.counter

C25_WitnessOwn ==
    /\ pool.mode = "own" /\ opts.counter >= 1
    /\ pool.w[1].annotated = opts.counter /\ pool.w[1].counter = 0
    /\ pool.w[1].refused >= 1

(***************************************************************************)
(* C26: the comments of the source                                         *)
(***************************************************************************)

\* a comment-style annotation was written
CommentWrite == last.op = "annot" /\ opts.annotation_style = "py2"

\* C26: a comment that is no type comment in front of the first line of
\* the body is kept with every comment line after it: the type comment is
\* the first line of the body and the lines the source had follow it as
\* they were.  In the per-parameter form a comment after a parameter stays,
\* behind the `# type:` comment written on that line.
C26_CommentsKept ==
    CommentWrite =>
        /\ sites[last.id].body.prefix[1] = AnnotLine
        /\ (last.site.body.prefix # <<>> /\ ~is_type_comment(last.site.body.prefix[1])) =>
              Tail(sites[last.id].body.prefix) = last.site.body.prefix
        /\ \A k \in DOMAIN last.site.argprefix :
              sites[last.id].argprefix[k].old = last.site.argprefix[k].old

\* both forms at one site: the comment of the body follows the type
\* comment, the comment after the first parameter follows its type
C26_Witness ==
    /\ CommentWrite /\ sites[last.id].annot.long
    /\ last.site.body.prefix = << "# body" >>
    /\ sites[last.id].body.prefix = << AnnotLine, "# body" >>
    /\ sites[last.id].argprefix[3] = [set |-> TRUE, arg |-> tInt, old |-> "# c1",
                                      fill |-> FALSE]

\* two comment lines in front of the body, both kept
C26_WitnessLines ==
    /\ CommentWrite
    /\ sites[last.id].body.prefix = << AnnotLine, "# hello", "# world" >>

(***************************************************************************)
(* C27: types of the module of the file itself                             *)
(***************************************************************************)

\* a dotted word whose module is the module of the file
OwnWord(w) == DottedWord(w) /\ Front(w.parts) = Env.current_module

\* the import statements the last call of transform put into the file
ImportsAdded == ImportsOf(root) \ ImportsOf(last.root)

\* no import is registered or written for the module of the file
NoOwnImport ==
    /\ \A p \in Registered : p.mod # Env.current_module
    /\ \A stmt \in ImportsAdded : stmt.form = "from" => stmt.package # Env.current_module

\* C27 as stated: a type of the module of the file is never imported, at
\* top level or deferred, and is written as the bare class name.
C27_OwnModuleBare ==
    JsonDone =>
        /\ NoOwnImport
        /\ \A pr \in ResolvedPairs : \A j \in 1..Len(pr.in) :
              OwnWord(pr.in[j]) => pr.out[j] = W(<< Last(pr.in[j].parts) >>)

\* C27: a type of the module of the file is never imported, at top level
\* or deferred; it is written as the bare class name unless an import
\* statement of the file already binds it (then it is written through that
\* binding).
C27_OwnModuleNoImport ==
    JsonDone =>
        /\ NoOwnImport
        /\ \A pr \in ResolvedPairs : \A j \in 1..Len(pr.in) :
              (OwnWord(pr.in[j])
               /\ Bindings(last.root, Front(pr.in[j].parts), Last(pr.in[j].parts)) = {}) =>
                  pr.out[j] = W(<< Last(pr.in[j].parts) >>)

\* mod1.py in package pkg: pkg.mod1.Mine was written Mine, and the type of
\* another module in the same signature had its import registered
C27_Witness ==
    /\ JsonDone /\ Env.current_module = <<"pkg", "mod1">>
    /\ \E pr \in ResolvedPairs :
          pr.in = tOwnPkg /\ pr.out = Bare("Mine")
    /\ Registered # {}
    /\ \A p \in Registered : p.mod # Env.current_module

(***************************************************************************)
(* C28: the loaded signature records                                       *)
(***************************************************************************)

\* C28: reconciliation leaves the loaded records alone: after any lookups,
\* the retry by bare name included, every record has the arg_types it was
\* loaded with.
C28_RecordsUnchanged ==
    /\ DOMAIN type_info = DOMAIN opts.type_info
    /\ \A i \in DOMAIN type_info : type_info[i].arg_types = opts.type_info[i].arg_types

(***************************************************************************)
(* C29: a site that could not be annotated                                 *)
(***************************************************************************)

\* C29: when the signature of a site was found and reconciled and no
\* annotation could be inserted, transform changes nothing: the counter and
\* the whole tree are as they were.
C29_NoInsertNoEffect ==
    last.op = "noinsert" =>
        /\ counter = last.counter
        /\ root = last.root
        /\ sites = last.sites

(***************************************************************************)
(* C30: the per-parameter comments                                         *)
(***************************************************************************)

\* a comment in the per-parameter form was written by the last call
LongWrite == CommentWrite /\ sites[last.id].annot.long

\* insert_long_form raised: under the comment style nothing else raises
\* in a fixer that reads no command
LongRaised ==
    last.op = "raise" /\ opts.annotation_style = "py2" /\ last.fixer # "command"

\* the places of the declared parameters in the parameter list
ParamAt(args) ==
    { i \in DOMAIN args : args[i].t = "NAME" /\ (i = 1 \/ args[i - 1].t # "EQUAL") }

\* the number of the parameter at place i, from 1
ParamNo(args, i) == Cardinality({ p \in ParamAt(args) : p <= i })

\* the leaf whose prefix ends the line of the parameter at place i: the one
\* after the next comma, or the ')'
SlotOf(args, i) ==
    LET commas == { j \in DOMAIN args : j > i /\ args[j].t = "COMMA" }
    IN  IF commas = {} THEN Len(args) + 1
        ELSE (CHOOSE j \in commas : \A l \in commas : j <= l) + 1

\* the reconciled type of that parameter, <<>> for the receiver of a
\* method whose type the signature left out
OwnType(args, types, i) ==
    IF Len(types) = Cardinality(ParamAt(args)) THEN StripStars(types[ParamNo(args, i)])
    ELSE IF ParamNo(args, i) = 1 THEN <<>>
    ELSE StripStars(types[ParamNo(args, i) - 1])

\* C30: for every signature that passed reconciliation insert_long_form
\* does not raise, writes no filler 'Any', and the comment that ends the
\* line of each declared parameter is the own reconciled type of that
\* parameter (none for a receiver whose type was left out); no other
\* comment is written.  This includes a method whose signature gives a
\* type for self or cls, and a parameter list with a lone '*'.
C30_LongFormPairs ==
    /\ ~LongRaised
    /\ LongWrite =>
          LET args == last.site.args
              types == sites[last.id].annot.args
              pre == sites[last.id].argprefix
          IN  /\ Len(types) \in { Cardinality(ParamAt(args)), Cardinality(ParamAt(args)) - 1 }
              /\ \A k \in DOMAIN pre : ~pre[k].fill
              /\ \A i \in ParamAt(args) :
                    LET own == OwnType(args, types, i)
                        slot == pre[SlotOf(args, i)]
                    IN  IF own = <<>> THEN ~slot.set \/ slot.arg = <<>>
                        ELSE slot.set /\ slot.arg = own
              /\ \A k \in DOMAIN pre :
                    (pre[k].set /\ pre[k].arg # <<>>) =>
                        \E i \in ParamAt(args) : SlotOf(args, i) = k

====
